---- MODULE Spec2Model ----
(***************************************************************************)
(* A model of the BELEX search front-end (app.py, app_unibe.py,            *)
(* belex_search.py): registry-number extraction, citation formatting,      *)
(* catalog grouping and ordering, the cached title resolver, the document *)
(* catalog client (list / upload / delete), the script runs of a web       *)
(* session (set-up, search tab, upload tab, delete tab, sidebar) and the   *)
(* command line.                                                           *)
(*                                                                         *)
(* Strings of the program are sequences of one-character strings, so that  *)
(* matching, splitting and trimming are computed character by character.   *)
(***************************************************************************)
EXTENDS Integers, Sequences, FiniteSets, TLC

VARIABLES
    title,          \* extract_bsg_number: the argument
    bsg_result,     \* extract_bsg_number: the returned value, Unset before the call
    cli_bsg_nr,     \* belex_search.py: the number its display loop extracts, Unset before
    response,       \* format_grounding_chunks: the argument
    format_calls,   \* format_grounding_chunks: the number of calls made on the argument
    sources_dict,   \* format_grounding_chunks: what the first call returned
    sources_again,  \* format_grounding_chunks: what the second call on the same argument returned
    cli_sources,    \* belex_search.py: the sources_dict built inside search for the argument
    documents,             \* load_button: the listing returned by list_documents
    catalog_loaded,        \* load_button: the button has been pressed
    rechtsbuecher,         \* load_button: book number -> list of (registry number, document)
    documents_without_bsg, \* load_button: the documents without registry number
    sorted_rechtsbuecher,  \* load_button: the book numbers in display order
    dup_report,            \* check_duplicates: what the duplicate check displayed
    show_own_uploads,      \* st.session_state.show_own_uploads (app_unibe.py), FALSE while absent
    docs_run,              \* what the tab 'Dokumente anzeigen' did in the last script run
    store,                 \* the documents of the file search store, in listing order
    deleted_names,         \* the documents delete_document reported as deleted in the session
    clock,          \* seconds since the server process started
    ticks,          \* the number of times the clock was advanced between calls
    law_cache,      \* st.cache_data of get_law_name: registry number -> stored entry
    law_requests,   \* the GET requests get_law_name has issued, with their time
    law_calls,      \* the number of calls of get_law_name
    law_last,       \* the last call: argument, age of the entry found, request issued, its answer
    law_return,     \* the last call: what it returned, or that it raised
    list_pc,        \* list_documents: "idle", "loop" (inside while True) or "returned"
    list_docs,      \* list_documents: the local list documents
    page_token,     \* list_documents: the local page_token
    list_requests,  \* list_documents: the params of the GET requests issued, in order
    list_answers,   \* list_documents: the answers received, in order
    list_return,    \* list_documents: the returned list
    list_errors,    \* list_documents: the st.error messages shown
    del_requests,   \* delete_document: the DELETE requests issued, in order
    del_last,       \* delete_document: variant, argument and answer of the last call
    del_return,     \* delete_document: what the last call returned
    del_errors,     \* delete_document: the st.error messages of the last call
    app_variant,    \* which application serves the session: "app" or "unibe"
    secrets,        \* st.secrets["gemini"]: api_key and filestore_id
    has_engine,     \* 'search_engine' in st.session_state
    run_status,     \* how the last script run ended: "none", "halted", "rendered", "rerun"
    docs_for_delete,  \* st.session_state.docs_for_delete: whether the key is present, and the list
    delete_tab_run,   \* what the delete tab did in the last script run
    tmp_files,      \* the temporary files that exist on disk
    tmp_created,    \* the number of temporary files created so far
    ingest_calls,   \* the calls of the vendor's ingestion endpoint, in order
    up_calls,       \* the number of calls of upload_file_to_filestore
    up_last,        \* upload_file_to_filestore: arguments and environment of the last call
    up_return,      \* upload_file_to_filestore: what the last call returned
    up_errors,      \* upload_file_to_filestore: the st.error messages of the last call
    uploaded_file,  \* the value of st.file_uploader, NoFile while nothing is submitted
    upload_tab_run, \* what the upload tab did in the last script run
    last_query,     \* st.session_state.last_query
    last_response,  \* st.session_state.last_response, NoResponse for None
    example_query,  \* st.session_state.example_query, Missing while the key is absent
    use_custom_prompt,     \* st.session_state.use_custom_prompt (app_unibe.py)
    custom_system_prompt,  \* st.session_state.custom_system_prompt (app_unibe.py)
    prompt_last,           \* the last button pressed in the prompt tab, and the text applied
    gen_calls,      \* the number of generate_content calls issued
    gen_last,       \* the arguments of the last generate_content call
    last_search,    \* the query and the returned value of the last search executed
    submissions,    \* the number of queries the user has submitted
    search_run,     \* what the search tab and the sidebar did in the last script run
    cli_config,     \* belex_search.py: config.json
    cli_argv,       \* belex_search.py: sys.argv[1:]
    cli_pc,         \* belex_search.py: "start", "loop" (inside while True) or "exited"
    cli_exit,       \* belex_search.py: the exit status, -1 while the process runs
    cli_engine,     \* belex_search.py: BELEXSearchEngine has been constructed
    cli_reads,      \* belex_search.py: the number of input() calls
    cli_last        \* belex_search.py: the last input event and the searches it started

extractVars == <<title, bsg_result, cli_bsg_nr>>
formatVars == <<response, format_calls, sources_dict, sources_again, cli_sources>>
docsTabVars == <<dup_report, show_own_uploads, docs_run, store, deleted_names>>
catalogVars == <<documents, catalog_loaded, rechtsbuecher, documents_without_bsg,
                 sorted_rechtsbuecher, docsTabVars>>
lawVars == <<clock, ticks, law_cache, law_requests, law_calls, law_last, law_return>>
listVars == <<list_pc, list_docs, page_token, list_requests, list_answers, list_return,
              list_errors>>
deleteVars == <<del_requests, del_last, del_return, del_errors>>
sessionVars == <<app_variant, secrets, has_engine, run_status>>
deleteTabVars == <<docs_for_delete, delete_tab_run>>
uploadVars == <<tmp_files, tmp_created, ingest_calls, up_calls, up_last, up_return, up_errors>>
uploadTabVars == <<uploaded_file, upload_tab_run>>
searchVars == <<last_query, last_response, example_query, use_custom_prompt,
                custom_system_prompt, prompt_last, gen_calls, gen_last, last_search,
                submissions,
                search_run>>
cliVars == <<cli_config, cli_argv, cli_pc, cli_exit, cli_engine, cli_reads, cli_last>>
webVars == <<sessionVars, deleteTabVars, uploadVars, uploadTabVars, searchVars, cliVars>>
vars == <<extractVars, formatVars, catalogVars, lawVars, listVars, deleteVars, webVars>>

\* Python's None, and the value of a variable no call has assigned yet; both are
\* one-element tuples, distinct from every string of characters
None == <<"None">>
Unset == <<"Unset">>
\* the value standing for an attribute the object does not have (hasattr is false)
Missing == <<"Missing">>

\* ------------------------------------------------------------------------
\* Characters and strings
\* ------------------------------------------------------------------------

Digits == {"0", "1", "2", "3", "4", "5", "6", "7", "8", "9"}

\* \s of the pattern and the characters str.strip() removes
Whitespace == {" "}

\* [\s_]
SepChars == Whitespace \cup {"_"}

\* [\d.]
DigitDot == Digits \cup {"."}

\* Unicode code points of the characters used, the order of Python's str comparison
CharCode(c) ==
    CASE c = " " -> 32
      [] c = "-" -> 45
      [] c = "." -> 46
      [] c = "0" -> 48
      [] c = "1" -> 49
      [] c = "2" -> 50
      [] c = "3" -> 51
      [] c = "4" -> 52
      [] c = "5" -> 53
      [] c = "6" -> 54
      [] c = "7" -> 55
      [] c = "8" -> 56
      [] c = "9" -> 57
      [] c = "B" -> 66
      [] c = "G" -> 71
      [] c = "S" -> 83
      [] c = "U" -> 85
      [] c = "_" -> 95
      [] c = "a" -> 97
      [] c = "b" -> 98
      [] c = "x" -> 120
      [] OTHER -> 121

\* the digit value int() gives a decimal digit
DigitVal(c) == CharCode(c) - 48

\* ------------------------------------------------------------------------
\* extract_bsg_number: re.search(r'BSG[\s_]?([\d.]+(?:-\d+)?)', title)
\* ------------------------------------------------------------------------

\* the number of characters of s from position k on that lie in cs (a greedy class+ or class*)
RECURSIVE RunLen(_, _, _)
RunLen(s, k, cs) ==
    IF k <= Len(s) /\ s[k] \in cs THEN 1 + RunLen(s, k + 1, cs) ELSE 0

\* the literal BSG at position i
MarkerAt(s, i) ==
    /\ i + 2 <= Len(s)
    /\ s[i] = "B"
    /\ s[i + 1] = "S"
    /\ s[i + 2] = "G"

\* ([\d.]+(?:-\d+)?) tried at position k: the position after the group, 0 when it fails.
\* [\d.]+ is greedy, the suffix group is optional and taken when it matches.
GroupEnd(s, k) ==
    LET n == RunLen(s, k, DigitDot)
        e == k + n
        m == IF e <= Len(s) /\ s[e] = "-" THEN RunLen(s, e + 1, Digits) ELSE 0
    IN  IF n = 0 THEN 0
        ELSE IF m > 0 THEN e + 1 + m
        ELSE e

\* the pattern with the separator made mandatory, BSG[\s_]([\d.]+(?:-\d+)?)
MatchAtSepRequired(s, i) ==
    IF ~MarkerAt(s, i) THEN None
    ELSE LET j == i + 3
             withSep == IF j <= Len(s) /\ s[j] \in SepChars THEN GroupEnd(s, j + 1) ELSE 0
         IN  IF withSep > 0 THEN SubSeq(s, j + 1, withSep - 1) ELSE None

\* the whole pattern tried at position i: group(1), or None.
\* [\s_]? first consumes a separator when there is one and gives it back when
\* the rest does not match.
MatchAt(s, i) ==
    IF ~MarkerAt(s, i) THEN None
    ELSE LET j == i + 3
             withSep == IF j <= Len(s) /\ s[j] \in SepChars THEN GroupEnd(s, j + 1) ELSE 0
             without == GroupEnd(s, j)
         IN  IF withSep > 0 THEN SubSeq(s, j + 1, withSep - 1)
             ELSE IF without > 0 THEN SubSeq(s, j, without - 1)
             ELSE None

\* re.search: the match at the leftmost position that has one
RECURSIVE SearchFrom(_, _)
SearchFrom(s, i) ==
    IF i > Len(s) THEN None
    ELSE IF MatchAt(s, i) # None THEN MatchAt(s, i)
    ELSE SearchFrom(s, i + 1)

extract_bsg_number(s) == SearchFrom(s, 1)

\* ------------------------------------------------------------------------
\* Titles the extraction is applied to
\* ------------------------------------------------------------------------

MaxPieces == 5

\* the pieces titles are made of: the marker, separators, the characters of a
\* registry number and another character
Pieces == {<<"B", "S", "G">>, <<"_">>, <<" ">>, <<"4">>, <<".">>, <<"-">>, <<"x">>, <<"B">>}

RECURSIVE Flatten(_)
Flatten(ps) == IF ps = <<>> THEN <<>> ELSE Head(ps) \o Flatten(Tail(ps))

Titles == {Flatten(ps) : ps \in UNION {[1..n -> Pieces] : n \in 0..MaxPieces}}

\* ------------------------------------------------------------------------
\* format_grounding_chunks
\* ------------------------------------------------------------------------

\* str.strip(): leading and trailing whitespace removed
RECURSIVE LStrip(_)
LStrip(s) == IF s # <<>> /\ Head(s) \in Whitespace THEN LStrip(Tail(s)) ELSE s

RECURSIVE RStrip(_)
RStrip(s) ==
    IF s # <<>> /\ s[Len(s)] \in Whitespace THEN RStrip(SubSeq(s, 1, Len(s) - 1)) ELSE s

Strip(s) == RStrip(LStrip(s))

\* Python truthiness of an attribute holding a string or None
Truthy(s) == s # Missing /\ s # None /\ s # <<>>

\* hasattr(chunk, 'retrieved_context') and hasattr(context, 'title'): an
\* attribute that is present and holds None gives a context without attributes
HasTitle(chunk) == chunk.retrieved_context = "obj" /\ chunk.title # Missing

\* one turn of the loop with the snippet list replaced instead of extended
FormatChunkOverwrite(d, chunk) ==
    IF ~HasTitle(chunk) THEN d
    ELSE IF Truthy(chunk.text)
         THEN [t \in DOMAIN d \cup {chunk.title} |->
                  IF t = chunk.title THEN <<Strip(chunk.text)>> ELSE d[t]]
    ELSE IF chunk.title \notin DOMAIN d
         THEN [t \in DOMAIN d \cup {chunk.title} |->
                  IF t = chunk.title THEN <<>> ELSE d[t]]
    ELSE d

\* one turn of the loop over grounding.grounding_chunks
FormatChunk(d, chunk) ==
    IF ~HasTitle(chunk) THEN d
    ELSE IF Truthy(chunk.text)
         THEN LET old == IF chunk.title \in DOMAIN d THEN d[chunk.title] ELSE <<>>
              IN  [t \in DOMAIN d \cup {chunk.title} |->
                      IF t = chunk.title THEN Append(old, Strip(chunk.text)) ELSE d[t]]
    ELSE IF chunk.title \notin DOMAIN d
         THEN [t \in DOMAIN d \cup {chunk.title} |->
                      IF t = chunk.title THEN <<>> ELSE d[t]]
    ELSE d

RECURSIVE FormatLoop(_, _)
FormatLoop(d, chunks) ==
    IF chunks = <<>> THEN d ELSE FormatLoop(FormatChunk(d, Head(chunks)), Tail(chunks))

EmptyDict == [t \in {} |-> <<>>]

\* The returned mapping; raised is TRUE when the call ends with an exception
\* instead (len() of an attribute that holds None is a TypeError, and the
\* function has no handler).
format_grounding_chunks(r) ==
    IF r.candidates = "missing" THEN [raised |-> FALSE, dict |-> EmptyDict]
    ELSE IF r.candidates = "None" THEN [raised |-> TRUE, dict |-> EmptyDict]
    ELSE IF Len(r.cands) = 0 THEN [raised |-> FALSE, dict |-> EmptyDict]
    ELSE LET candidate == r.cands[1]
         IN  IF candidate.grounding_metadata # "obj"
             THEN [raised |-> FALSE, dict |-> EmptyDict]
             ELSE IF candidate.grounding_chunks = "missing"
             THEN [raised |-> FALSE, dict |-> EmptyDict]
             ELSE IF candidate.grounding_chunks = "None"
             THEN [raised |-> TRUE, dict |-> EmptyDict]
             ELSE IF Len(candidate.chunks) = 0
             THEN [raised |-> FALSE, dict |-> EmptyDict]
             ELSE [raised |-> FALSE, dict |-> FormatLoop(EmptyDict, candidate.chunks)]

\* ------------------------------------------------------------------------
\* Responses the formatter is applied to
\* ------------------------------------------------------------------------

MaxChunks == 3

ChunkTitles == {Missing, None, <<"a">>, <<"b">>}
ChunkTexts == {Missing, None, <<" ">>, <<" ", "x", " ">>, <<"y">>}

Chunks ==
    [retrieved_context : {"obj"}, title : ChunkTitles, text : ChunkTexts]
    \cup [retrieved_context : {"missing", "None"}, title : {Missing}, text : {Missing}]

ChunkLists == UNION {[1..n -> Chunks] : n \in 0..MaxChunks}

Candidate(gm, gc, chunks) ==
    [grounding_metadata |-> gm, grounding_chunks |-> gc, chunks |-> chunks]

\* a response whose first candidate carries the chunk list
ResponseOf(chunks) ==
    [candidates |-> "list", cands |-> <<Candidate("obj", "list", chunks)>>]

\* responses with the grounding data absent at one of the levels
BareResponses ==
    {[candidates |-> c, cands |-> <<>>] : c \in {"missing", "None", "list"}}
    \cup {[candidates |-> "list", cands |-> <<Candidate(gm, gc, <<>>)>>] :
            gm \in {"missing", "None", "obj"}, gc \in {"missing", "None"}}

Responses == {ResponseOf(chunks) : chunks \in ChunkLists} \cup BareResponses

\* ------------------------------------------------------------------------
\* Catalog listing: grouping by Rechtsbuch and ordering of the groups
\* ------------------------------------------------------------------------

\* doc.get('displayName', 'Unbekannt')
Unbekannt == <<"U", "n", "b", "e", "k", "a", "n", "n", "t">>

DisplayNameOf(doc) == IF doc.displayName = Missing THEN Unbekannt ELSE doc.displayName

\* the book taken to be the first character of the registry number
FirstChar(s) == SubSeq(s, 1, 1)

\* bsg_nr.split('.')[0]: the characters before the first dot, all of them when
\* there is no dot
SplitFirst(s) == SubSeq(s, 1, RunLen(s, 1, {c \in {s[i] : i \in 1..Len(s)} : c # "."}))

\* rechtsbuecher[rechtsbuch].append(x) on a defaultdict(list)
DictAppend(d, k, x) ==
    [t \in DOMAIN d \cup {k} |->
        IF t = k THEN Append(IF k \in DOMAIN d THEN d[k] ELSE <<>>, x) ELSE d[t]]

\* one turn of the grouping loop that loses a document without registry number
\* once a group exists
GroupDocLossy(g, doc) ==
    LET bsg_nr == extract_bsg_number(DisplayNameOf(doc))
    IN  IF bsg_nr # None
        THEN [g EXCEPT !.rechtsbuecher = DictAppend(@, SplitFirst(bsg_nr), <<bsg_nr, doc>>)]
        ELSE IF DOMAIN g.rechtsbuecher = {}
        THEN [g EXCEPT !.documents_without_bsg = Append(@, doc)]
        ELSE g

\* one turn of the grouping loop; a match is never the empty string, so
\* 'if bsg_nr' is the test for a match
GroupDoc(g, doc) ==
    LET bsg_nr == extract_bsg_number(DisplayNameOf(doc))
    IN  IF bsg_nr # None
        THEN [g EXCEPT !.rechtsbuecher = DictAppend(@, SplitFirst(bsg_nr), <<bsg_nr, doc>>)]
        ELSE [g EXCEPT !.documents_without_bsg = Append(@, doc)]

RECURSIVE GroupLoop(_, _)
GroupLoop(g, docs) ==
    IF docs = <<>> THEN g ELSE GroupLoop(GroupDoc(g, Head(docs)), Tail(docs))

NoGroups == [rechtsbuecher |-> EmptyDict, documents_without_bsg |-> <<>>]

GroupDocuments(docs) == GroupLoop(NoGroups, docs)

\* x.isdigit()
IsDigit(x) == x # <<>> /\ \A i \in 1..Len(x) : x[i] \in Digits

\* int(x) of a string of digits
RECURSIVE IntOf(_)
IntOf(x) ==
    IF x = <<>> THEN 0 ELSE 10 * IntOf(SubSeq(x, 1, Len(x) - 1)) + DigitVal(x[Len(x)])

\* the number the sort key gives a key that is not all digits
NonDigitRank == 999999

\* Python's str comparison: x < y
RECURSIVE StrLess(_, _)
StrLess(x, y) ==
    IF y = <<>> THEN FALSE
    ELSE IF x = <<>> THEN TRUE
    ELSE IF CharCode(Head(x)) # CharCode(Head(y)) THEN CharCode(Head(x)) < CharCode(Head(y))
    ELSE StrLess(Tail(x), Tail(y))

\* lambda x: (int(x) if x.isdigit() else 999999, x), first component
SortRank(x) == IF IsDigit(x) THEN IntOf(x) ELSE NonDigitRank

\* the tuple comparison of two sort keys: key(x) <= key(y)
SortKeyLeq(x, y) ==
    \/ SortRank(x) < SortRank(y)
    \/ SortRank(x) = SortRank(y) /\ (x = y \/ StrLess(x, y))

\* sorted(rechtsbuecher.keys(), key=...): the keys are distinct, so the order
\* of the result is the order of the sort keys
RECURSIVE SortedKeys(_)
SortedKeys(ks) ==
    IF ks = {} THEN <<>>
    ELSE LET least == CHOOSE x \in ks : \A y \in ks : SortKeyLeq(x, y)
         IN  <<least>> \o SortedKeys(ks \ {least})

\* ------------------------------------------------------------------------
\* Document lists the catalog grouping is applied to
\* ------------------------------------------------------------------------

MaxDocs == 3

\* the display names of the store: registry numbers of two books, one
\* registry number under two spellings of the marker, a name
\* without marker, a missing name, a number starting with a dot, a number with
\* a dash and no dot, and a seven-digit book
DisplayNames ==
    { <<"B", "S", "G", "_", "4", "3", "2", ".", "3", "1", "1">>,
      <<"B", "S", "G", " ", "4", "3", "2", ".", "1">>,
      <<"B", "S", "G", " ", "9", ".", "1">>,
      <<"B", "S", "G", "_", "9", ".", "1">>,
      Unbekannt,
      Missing,
      <<"B", "S", "G", " ", ".", "5">>,
      <<"B", "S", "G", " ", "4", "-", "1">>,
      <<"B", "S", "G", " ", "1", "0", "0", "0", "0", "0", "0", ".", "1">> }

\* the listing returned by the store: the i-th document has the resource name i
DocLists ==
    UNION {{[i \in 1..n |-> [name |-> i, displayName |-> dn[i]]] : dn \in [1..n -> DisplayNames]} :
              n \in 0..MaxDocs}

\* ------------------------------------------------------------------------
\* get_law_name under @st.cache_data(ttl=3600)
\* ------------------------------------------------------------------------

\* ttl of the cache decorator, in seconds
CacheTtl == 3600

\* timeout of requests.get, in seconds
RequestTimeout == 5

\* What the lookup API can answer to one GET: no answer within the timeout, a
\* connection error, or a status with a body. The body is not JSON
\* ("unparseable"), JSON whose text_of_law is null ("null_law"), JSON without
\* text_of_law ("no_law"), or JSON with a text_of_law object ("law") whose title
\* and abbreviation are missing, empty or a string.
LawTitle == <<"L">>
LawAbbreviation == <<"A">>

HttpOutcome(kind, status, body, t, a) ==
    [kind |-> kind, status |-> status, body |-> body, title |-> t, abbreviation |-> a]

LawOutcomes ==
    {HttpOutcome(k, 0, "none", Missing, Missing) : k \in {"timeout", "connection_error"}}
    \cup {HttpOutcome("response", 200, b, Missing, Missing) :
            b \in {"unparseable", "null_law", "no_law"}}
    \cup {HttpOutcome("response", 200, "law", t, a) :
            t \in {Missing, <<>>, LawTitle}, a \in {Missing, <<>>, LawAbbreviation}}
    \cup {HttpOutcome("response", s, "unparseable", Missing, Missing) : s \in {404, 500}}
    \cup {HttpOutcome("response", s, "law", LawTitle, LawAbbreviation) : s \in {404, 500}}

\* the seconds a GET takes: an answer at once, or the timeout
LawRequestTime(o) == IF o.kind = "timeout" THEN RequestTimeout ELSE 0

\* data.get("text_of_law", {}).get(key, "")
LawField(o, v) == IF o.body = "no_law" \/ v = Missing THEN <<>> ELSE v

\* The try block: the exception it ends with ("" for none), whether it ended
\* with a return statement, and the value returned.
LawTry(o) ==
    IF o.kind = "timeout" THEN [exc |-> "Timeout", ret |-> FALSE, value |-> None]
    ELSE IF o.kind = "connection_error"
    THEN [exc |-> "ConnectionError", ret |-> FALSE, value |-> None]
    ELSE IF o.status # 200 THEN [exc |-> "", ret |-> FALSE, value |-> None]
    ELSE IF o.body = "unparseable" THEN [exc |-> "JSONDecodeError", ret |-> FALSE, value |-> None]
    ELSE IF o.body = "null_law" THEN [exc |-> "AttributeError", ret |-> FALSE, value |-> None]
    ELSE LET t == LawField(o, o.title)
             a == LawField(o, o.abbreviation)
         IN  IF t # <<>> /\ a # <<>>
             THEN [exc |-> "", ret |-> TRUE, value |-> t \o <<" ", "(">> \o a \o <<")">>]
             ELSE IF t # <<>> THEN [exc |-> "", ret |-> TRUE, value |-> t]
             ELSE [exc |-> "", ret |-> FALSE, value |-> None]

\* a handler that catches the exceptions of requests only
CaughtIfRequestException(exc) == exc \in {"Timeout", "ConnectionError"}

\* except Exception: every exception of the try block derives from Exception
Caught(exc) == exc \in {"Timeout", "ConnectionError", "JSONDecodeError", "AttributeError"}

\* the function body: 'except Exception: pass' and the final 'return None'
LawBody(o) ==
    LET t == LawTry(o)
    IN  IF t.exc # "" /\ ~Caught(t.exc) THEN [raised |-> TRUE, value |-> None]
        ELSE IF t.exc = "" /\ t.ret THEN [raised |-> FALSE, value |-> t.value]
        ELSE [raised |-> FALSE, value |-> None]

NoEntry == [present |-> FALSE, value |-> None, stored_at |-> 0]

\* an entry that never expires
FreshForever(entry, now) == entry.present

\* the cache returns an entry while less than ttl seconds have passed since
\* it was stored
Fresh(entry, now) == entry.present /\ now - entry.stored_at < CacheTtl

\* ------------------------------------------------------------------------
\* Registry numbers looked up, and the passing of time
\* ------------------------------------------------------------------------

MaxLawCalls == 3
MaxTicks == 2

BsgNumbers == {<<"4", "3", "2", ".", "1">>, <<"9", ".", "1">>}

\* the seconds that pass between two calls: one second, or one second less
\* than the ttl
TickSteps == {1, CacheTtl - 1}

\* ------------------------------------------------------------------------
\* list_documents
\* ------------------------------------------------------------------------

\* params = {"pageSize": 20}
PageSize == 20

\* What the store can answer to one listing request: an exception of the
\* HTTP client ("exception"), or a status with a body. A 200 body is a JSON
\* object that may lack "documents" (documents = Missing) and "nextPageToken"
\* (token = Missing); another status carries an error text.
PageTokens == {Missing, <<>>, <<"a">>, <<"b">>}
PageDocuments == {Missing, <<>>, <<"d1">>, <<"d2", "d3">>}
ErrorStatuses == {403, 500}
ErrorText == <<"x">>

PageAnswer(kind, status, docs, token, text) ==
    [kind |-> kind, status |-> status, documents |-> docs, token |-> token, text |-> text]

PageAnswers ==
    {PageAnswer("exception", 0, Missing, Missing, <<>>)}
    \cup {PageAnswer("response", 200, d, t, <<>>) : d \in PageDocuments, t \in PageTokens}
    \cup {PageAnswer("response", s, Missing, Missing, ErrorText) : s \in ErrorStatuses}

\* the request that never carries a page token
FirstPageParams(token) == [pageSize |-> PageSize, pageToken |-> Missing]

\* params = {"pageSize": 20}; if page_token: params["pageToken"] = page_token
ListParams(token) ==
    [pageSize |-> PageSize, pageToken |-> IF Truthy(token) THEN token ELSE Missing]

\* if "documents" in data: documents.extend(data["documents"])
ListExtend(docs, data) ==
    IF data.documents # Missing THEN docs \o data.documents ELSE docs

\* a page whose nextPageToken is never read
NoNextPageToken(data) == None

\* data.get("nextPageToken")
NextPageToken(data) == IF data.token = Missing THEN None ELSE data.token

\* a non-200 branch that gives up the accumulated documents
ListDropOnError(docs) == <<>>

\* the non-200 branch: break, then 'return documents'
ListReturnOnError(docs) == docs

\* st.error(f"Fehler beim Abrufen der Dokumente: {status}"); st.error(response.text)
ListStatusErrors(r) ==
    << [message |-> "Fehler beim Abrufen der Dokumente", status |-> r.status, text |-> <<>>],
       [message |-> "", status |-> 0, text |-> r.text] >>

\* an exception handler that returns what the loop has accumulated
ListKeepOnException(docs) == docs

\* except Exception: return []
ListReturnOnException(docs) == <<>>

\* st.error(f"Fehler beim Auflisten der Dokumente: {e}")
ListExceptionErrors ==
    << [message |-> "Fehler beim Auflisten der Dokumente", status |-> 0, text |-> <<>>] >>

MaxRequests == 3

\* ------------------------------------------------------------------------
\* delete_document, in app.py and in app_unibe.py
\* ------------------------------------------------------------------------

\* What the store can answer to one DELETE: an exception of the HTTP client,
\* or a status with a body.
DeleteStatuses == {200, 204, 403, 404, 500}

DeleteAnswer(kind, status, text) == [kind |-> kind, status |-> status, text |-> text]

DeleteAnswers ==
    {DeleteAnswer("exception", 0, <<>>)}
    \cup {DeleteAnswer("response", s, ErrorText) : s \in DeleteStatuses}

\* requests.delete(url, headers=headers, params={"force": "true"})
DeleteRequest(document_name) ==
    [method |-> "DELETE", document_name |-> document_name, force |-> "true"]

DeleteFailure(message, r) ==
    IF r.kind = "exception"
    THEN << [message |-> message, status |-> 0, text |-> <<>>] >>
    ELSE << [message |-> message, status |-> r.status, text |-> <<>>],
            [message |-> "", status |-> 0, text |-> r.text] >>

\* app.py: if response.status_code == 200
delete_document_app(r) ==
    IF r.kind = "exception"
    THEN [ok |-> FALSE, errors |-> DeleteFailure("Fehler beim Loeschen", r)]
    ELSE IF r.status = 200 THEN [ok |-> TRUE, errors |-> <<>>]
    ELSE [ok |-> FALSE, errors |-> DeleteFailure("Fehler beim Loeschen", r)]

\* app_unibe.py: if response.status_code in [200, 204]
delete_document_unibe(r) ==
    IF r.kind = "exception"
    THEN [ok |-> FALSE, errors |-> DeleteFailure("Exception beim Loeschen", r)]
    ELSE IF r.status \in {200, 204} THEN [ok |-> TRUE, errors |-> <<>>]
    ELSE [ok |-> FALSE, errors |-> DeleteFailure("Fehler beim Loeschen", r)]

MaxDeletes == 3

\* the resource names of the documents asked to be deleted
DocumentNames == {"d1", "d2"}

\* ------------------------------------------------------------------------
\* The web session: load_config and the start of every script run
\* ------------------------------------------------------------------------

\* what the secrets store can hold under a key: nothing (the lookup raises
\* KeyError), the empty string, or a value
SecretValues == {Missing, <<>>, <<"k">>}

SecretStores == [api_key : SecretValues, filestore_id : SecretValues]

\* a check of the API key alone
LoadConfigKeyOnly(s) ==
    IF s.api_key = Missing
    THEN [stopped |-> TRUE, errors |-> 2]
    ELSE IF ~Truthy(s.api_key)
    THEN [stopped |-> TRUE, errors |-> 1]
    ELSE [stopped |-> FALSE, errors |-> 0]

\* load_config: a KeyError shows two messages and stops the script run, an
\* empty value shows one message and stops it; otherwise the pair is returned
load_config(s) ==
    IF s.api_key = Missing \/ s.filestore_id = Missing
    THEN [stopped |-> TRUE, errors |-> 2]
    ELSE IF ~Truthy(s.api_key) \/ ~Truthy(s.filestore_id)
    THEN [stopped |-> TRUE, errors |-> 1]
    ELSE [stopped |-> FALSE, errors |-> 0]

\* if 'search_engine' not in st.session_state: load_config is called and the
\* engine, the client, the key and the store are put into the session; the
\* value is whether the run gets past this point
SessionStart(engine, s) == engine \/ ~load_config(s).stopped

AppVariants == {"app", "unibe"}

\* ------------------------------------------------------------------------
\* upload_file_to_filestore, in app.py and in app_unibe.py, and the upload tab
\* ------------------------------------------------------------------------

\* the value of st.file_uploader while no file is submitted (None)
NoFile == [name |-> "", size |-> -1, type |-> ""]

\* the sizes of the submitted files in bytes: 1 byte, 100 MB, 100 MB and one
\* byte, 150 MB
FileSizes == {1, 100 * 1024 * 1024, 100 * 1024 * 1024 + 1, 150 * 1024 * 1024}

UploadedFiles == {[name |-> "a.pdf", size |-> n, type |-> "application/pdf"] : n \in FileSizes}

\* the value of the text input 'Anzeigename (optional)'
DisplayNameInputs == {"", "Titel"}

\* What happens around one upload: writing the bytes to the temporary file
\* succeeds or raises, the ingestion call returns or raises.
UploadEnvironments == [write : {"ok", "raises"}, ingest : {"ok", "raises"}]

\* the name Path is bound in the module: app_unibe.py imports it from
\* pathlib, app.py does not
PathImported(variant) == variant = "unibe"

UploadOperation == <<"operation">>

\* the arguments of the ingestion call; app.py passes the MIME type and no
\* metadata, app_unibe.py passes the metadata and no MIME type
IngestCall(variant, filestore_id, file, display_name, tmp_path, now) ==
    [ endpoint |-> IF variant = "app" THEN "file_search" ELSE "file_search_stores",
      file_search_store_name |-> filestore_id,
      file_path |-> tmp_path,
      mime_type |-> IF variant = "app" THEN file.type ELSE "",
      display_name |-> IF display_name # "" THEN display_name ELSE file.name,
      uploaded_via |-> IF variant = "app" THEN "" ELSE "webapp",
      upload_timestamp |-> IF variant = "app" THEN -1 ELSE now ]

UploadResult(ret, created, left, calls, errors) ==
    [ret |-> ret, created |-> created, left |-> left, calls |-> calls, errors |-> errors]

\* upload_file_to_filestore. Evaluating Path(...) raises NameError where Path
\* is not imported, before the temporary file is created. The temporary file
\* is created with delete=False; when write raises, the with block is left
\* before tmp_path is assigned and before the try/finally that unlinks the
\* file, so the file stays. Every exception ends in the outer handler, which
\* shows one message and returns None.
upload_file_to_filestore(variant, filestore_id, file, display_name, env, tmp_path, now) ==
    LET call == IngestCall(variant, filestore_id, file, display_name, tmp_path, now)
    IN  IF ~PathImported(variant) THEN UploadResult(None, FALSE, FALSE, <<>>, 1)
        ELSE IF env.write = "raises" THEN UploadResult(None, TRUE, TRUE, <<>>, 1)
        ELSE IF env.ingest = "raises" THEN UploadResult(None, TRUE, FALSE, <<call>>, 1)
        ELSE UploadResult(UploadOperation, TRUE, FALSE, <<call>>, 0)

NoUpload == [variant |-> "none", file |-> NoFile, display_name |-> "",
             env |-> [write |-> "ok", ingest |-> "ok"], created |-> FALSE, calls |-> 0]

\* the store identifier the session passes to the upload
ConfiguredStore == <<"s">>

MaxUploads == 2

\* a size check against 200 MB
TooLarge200(file) == file.size > 200 * (1024 * 1024)

\* file_size_mb = len(uploaded_file.getvalue()) / (1024 * 1024); the check
\* file_size_mb > 100. The division by a power of two is exact in floating
\* point, so the check holds exactly when the length exceeds 100 * 2^20.
TooLarge(file) == file.size > 100 * (1024 * 1024)

\* what the upload tab shows for the submitted file: nothing, the error
\* message, or the button 'Hochladen'
UploadTabRender(file) ==
    [ rejected |-> file # NoFile /\ TooLarge(file),
      offered |-> file # NoFile /\ ~TooLarge(file),
      called |-> FALSE,
      success |-> FALSE ]

\* ------------------------------------------------------------------------
\* Search: BELEXSearchEngine.search, search_with_custom_prompt and the part
\* of the script run that handles the search button and the example buttons
\* ------------------------------------------------------------------------

DEFAULT_SYSTEM_PROMPT == "default"

\* the value None of a response, with the fields of a response
NoResponse == [kind |-> "None", text |-> <<>>, candidates |-> "missing", cands |-> <<>>]

\* a response with its answer text and the candidates of r
Answer(text, r) ==
    [kind |-> "response", text |-> text, candidates |-> r.candidates, cands |-> r.cands]

GroundedChunk == [retrieved_context |-> "obj", title |-> <<"a">>, text |-> <<"y">>]

\* the responses of the generative endpoint: two answers with a source, and
\* an answer whose grounding metadata holds None as chunk list
SearchResponses ==
    { Answer(<<"A">>, ResponseOf(<<GroundedChunk>>)),
      Answer(<<"B">>, ResponseOf(<<GroundedChunk>>)),
      Answer(<<"A">>, [candidates |-> "list", cands |-> <<Candidate("obj", "None", <<>>)>>]) }

\* what one generate_content call does: it raises (network or API error) or
\* it returns a response
SearchOutcomes ==
    {[kind |-> "raises", response |-> NoResponse]}
    \cup {[kind |-> "response", response |-> a] : a \in SearchResponses}

GenerateCall(model, contents, system_instruction) ==
    [model |-> model, contents |-> contents, system_instruction |-> system_instruction]

NoCall == GenerateCall("", <<>>, "")

\* BELEXSearchEngine.search prints the sources inside its try block: len() of
\* a candidates or grounding_chunks attribute that holds None raises, and so
\* does re.search on a title that holds None
PrintRaises(r) ==
    IF r.candidates = "missing" THEN FALSE
    ELSE IF r.candidates = "None" THEN TRUE
    ELSE IF Len(r.cands) = 0 THEN FALSE
    ELSE LET candidate == r.cands[1]
         IN  IF candidate.grounding_metadata # "obj" THEN FALSE
             ELSE IF candidate.grounding_chunks = "missing" THEN FALSE
             ELSE IF candidate.grounding_chunks = "None" THEN TRUE
             ELSE \E i \in 1..Len(candidate.chunks) :
                     HasTitle(candidate.chunks[i]) /\ candidate.chunks[i].title = None

SearchResult(call, ret, messages) == [call |-> call, ret |-> ret, messages |-> messages]

\* BELEXSearchEngine.search: one generate_content call without system
\* instruction; every exception inside the try block is printed and None is
\* returned
engine_search(query, o) ==
    SearchResult(GenerateCall("gemini-2.5-flash", query, ""),
                 IF o.kind = "raises" \/ PrintRaises(o.response) THEN NoResponse
                 ELSE o.response,
                 0)

\* search_with_custom_prompt: one generate_content call with the system
\* instruction; an exception is shown with st.error and None is returned
search_with_custom_prompt(query, system_prompt, o) ==
    SearchResult(GenerateCall("gemini-2.5-pro", query, system_prompt),
                 IF o.kind = "raises" THEN NoResponse ELSE o.response,
                 IF o.kind = "raises" THEN 1 ELSE 0)

\* the search the variant's page runs: app.py calls the engine, app_unibe.py
\* calls search_with_custom_prompt with the custom or the default prompt
PageSearch(variant, query, use_custom, custom_prompt, o) ==
    IF variant = "app" THEN engine_search(query, o)
    ELSE search_with_custom_prompt(query,
             IF use_custom THEN custom_prompt ELSE DEFAULT_SYSTEM_PROMPT, o)

\* the text area's content when the search button is clicked
QueryInputs == {<<>>, <<" ">>, <<"a">>, <<" ", "b">>}

MaxSubmissions == 3

\* the labels of the example buttons
ExampleQueries == {<<"e", "1">>, <<"e", "2">>}

\* a search started whenever the text area is not empty
SearchingUnstripped(click) == click # Missing /\ click # <<>>

\* if search_button and query.strip(); click is the text area's content in
\* the run of a click on the button, Missing in every other run
Searching(click) == click # Missing /\ Strip(click) # <<>>

\* an answer section shown whatever the session holds
AnswerShownAlways(resp) == TRUE

\* if st.session_state.last_response: the answer section is shown
AnswerShown(resp) == resp # NoResponse

\* an example that stays in the session after it was searched
ExampleKept(pending) == pending

\* del st.session_state.example_query
ExampleTaken(pending) == Missing

\* The search tab and the sidebar in one script run that got past the session
\* set-up. click is the text area's content if the search button was clicked,
\* example the label of a clicked example button (Missing otherwise); o1
\* answers the search of the tab, o2 the search of a pending example.
\*   tab:     a non-blank click stores the query, runs the search and stores
\*            what it returned;
\*   answer:  shown when last_response is not None; format_grounding_chunks
\*            is not guarded, so when it raises the run ends there;
\*   sidebar: a clicked example is stored and the run restarted; otherwise a
\*            pending example is taken out, stored as last_query, searched,
\*            its result stored and the run restarted.
ScriptRun(click, example, o1, o2) ==
    LET tab == PageSearch(app_variant, click, use_custom_prompt, custom_system_prompt, o1)
        searched1 == Searching(click)
        query1 == IF searched1 THEN click ELSE last_query
        response1 == IF searched1 THEN tab.ret ELSE last_response
        shown == AnswerShown(response1)
        raised == shown /\ format_grounding_chunks(response1).raised
        stored == ~raised /\ example # Missing
        searched2 == ~raised /\ example = Missing /\ example_query # Missing
        side == PageSearch(app_variant, example_query, use_custom_prompt,
                           custom_system_prompt, o2)
    IN  [ last_query |-> IF searched2 THEN example_query ELSE query1,
          last_response |-> IF searched2 THEN side.ret ELSE response1,
          example_query |-> IF stored THEN example
                            ELSE IF searched2 THEN ExampleTaken(example_query)
                            ELSE example_query,
          calls |-> (IF searched1 THEN <<tab.call>> ELSE <<>>)
                    \o (IF searched2 THEN <<side.call>> ELSE <<>>),
          results |-> (IF searched1
                       THEN <<[query |-> click, result |-> tab.ret,
                               raised |-> o1.kind = "raises"]>>
                       ELSE <<>>)
                      \o (IF searched2
                          THEN <<[query |-> example_query, result |-> side.ret,
                                  raised |-> o2.kind = "raises"]>>
                          ELSE <<>>),
          messages |-> (IF searched1 THEN tab.messages ELSE 0)
                       + (IF searched2 THEN side.messages ELSE 0),
          shown |-> shown,
          status |-> IF raised THEN "raised"
                     ELSE IF stored \/ searched2 THEN "rerun"
                     ELSE "rendered" ]

NoSearchRun ==
    [click |-> Missing, example |-> Missing, query_before |-> <<>>,
     response_before |-> NoResponse, searches |-> 0, failed |-> FALSE, messages |-> 0,
     shown |-> FALSE, status |-> "none"]

\* ------------------------------------------------------------------------
\* The command line of belex_search.py
\* ------------------------------------------------------------------------

NoInput == [event |-> "none", line |-> <<>>, outcome |-> "none", searches |-> 0,
            ended |-> FALSE]

\* config.json: absent, or present with each of the two keys absent, empty
\* or set
CliConfigs ==
    {[exists |-> FALSE, api_key |-> Missing, filestore_id |-> Missing]}
    \cup [exists : {TRUE}, api_key : SecretValues, filestore_id : SecretValues]

\* the validation of main: sys.exit(1) when config.json does not exist, when
\* not api_key, when not filestore_id
CliConfigRejected(config) ==
    ~config.exists \/ ~Truthy(config.api_key) \/ ~Truthy(config.filestore_id)

\* sys.argv[1:]
CliArgvs == {<<>>, << <<"a">> >>, << <<"a">>, <<"b">> >>}

\* " ".join(args)
RECURSIVE Join(_)
Join(args) ==
    IF args = <<>> THEN <<>>
    ELSE IF Len(args) = 1 THEN args[1]
    ELSE args[1] \o <<" ">> \o Join(Tail(args))

\* the lines typed at the prompt
InputLines ==
    { <<>>, <<" ">>, <<"q">>, <<" ", "Q", " ">>, <<"q", "u", "i", "t">>,
      <<"E", "x", "i", "t">>, <<"x">>, <<"q", "u", "i", "t", "s">> }

\* str.lower() on the letters of the lines
Lower(c) ==
    CASE c = "Q" -> "q" [] c = "E" -> "e" [] c = "X" -> "x" [] c = "I" -> "i"
      [] c = "T" -> "t" [] c = "U" -> "u" [] OTHER -> c

LowerStr(s) == [i \in 1..Len(s) |-> Lower(s[i])]

QuitWords == {<<"q", "u", "i", "t">>, <<"e", "x", "i", "t">>, <<"q">>}

\* the comparison without lower()
QuitsAsTyped(query) == query \in QuitWords

\* query.lower() in ['quit', 'exit', 'q']
Quits(query) == LowerStr(query) \in QuitWords

\* what input() does: it returns a line, raises EOFError or raises
\* KeyboardInterrupt
InputEvents == {"line", "eof", "interrupt"}

\* what happens during a search of the loop: the call raises, returns, or
\* the user interrupts it (KeyboardInterrupt is not an Exception and leaves
\* search)
CliSearchOutcomes == SearchOutcomes \cup {[kind |-> "interrupt", response |-> NoResponse]}

\* One turn of the loop: the trimmed line is skipped when empty, ends the
\* loop when it is a quit word and is searched otherwise; EOFError and
\* KeyboardInterrupt end the loop.
LoopTurn(event, line, o) ==
    LET query == Strip(line)
    IN  IF event # "line" THEN [searched |-> FALSE, query |-> <<>>, ended |-> TRUE]
        ELSE IF query = <<>> THEN [searched |-> FALSE, query |-> query, ended |-> FALSE]
        ELSE IF Quits(query) THEN [searched |-> FALSE, query |-> query, ended |-> TRUE]
        ELSE [searched |-> TRUE, query |-> query, ended |-> o.kind = "interrupt"]

MaxInputs == 3

\* ------------------------------------------------------------------------
\* The delete tab (subtab3)
\* ------------------------------------------------------------------------

\* the documents of the store, as list_documents returns them; the second
\* is a second upload of the file of the first
StoredDocument(name, display_name, size_bytes) ==
    [name |-> name, displayName |-> display_name, sizeBytes |-> size_bytes]

StoredDocuments ==
    { StoredDocument("d1", <<"B", "S", "G", " ", "4", "3", "2", ".", "1">>, 1024),
      StoredDocument("d2", <<"B", "S", "G", " ", "4", "3", "2", ".", "1">>, 1024),
      StoredDocument("d3", Missing, 0) }

MaxListed == 2

\* the number of clicks on the delete button in one session
MaxTabDeletes == 1

\* what list_documents can return to the tab: the stored documents in any
\* order, or the empty list
Listings ==
    UNION {{l \in [1..n -> StoredDocuments] : \A i, j \in 1..n : i # j => l[i] # l[j]} :
              n \in 0..MaxListed}

\* what get_law_name returns for a registry number in one script run: a title
\* when the register is reachable, None otherwise
LawNameIn(reachable, bsg_nr) == IF reachable THEN LawTitle \o bsg_nr ELSE None

\* label_name and size of the label f"{label_name} ({size_bytes:,} Bytes)"
DocLabel(doc, reachable) ==
    LET display_name == DisplayNameOf(doc)
        bsg_nr == extract_bsg_number(display_name)
        law_name == IF Truthy(bsg_nr) THEN LawNameIn(reachable, bsg_nr) ELSE None
    IN  [label_name |-> IF Truthy(law_name) THEN law_name ELSE display_name,
         size_bytes |-> doc.sizeBytes]

\* doc_options[label] = doc['name']: a label already present keeps its place
\* and takes the new name
DictSet(options, label, name) ==
    IF \E i \in 1..Len(options) : options[i].label = label
    THEN [i \in 1..Len(options) |->
            IF options[i].label = label THEN [label |-> label, name |-> name]
            ELSE options[i]]
    ELSE Append(options, [label |-> label, name |-> name])

RECURSIVE DocOptionsLoop(_, _, _, _)
DocOptionsLoop(options, docs, i, reachable) ==
    IF i > Len(docs) THEN options
    ELSE DocOptionsLoop(DictSet(options, DocLabel(docs[i], reachable), docs[i].name),
                        docs, i + 1, reachable)

\* the dict doc_options in insertion order, as a list of (label, name)
DocOptions(docs, reachable) == DocOptionsLoop(<<>>, docs, 1, reachable)

\* a key of st.session_state that is absent, and one that holds a list
Absent == [present |-> FALSE, docs |-> <<>>]
Held(docs) == [present |-> TRUE, docs |-> docs]

\* the delete action with the list dropped and the run restarted whatever
\* delete_document returned
DeleteClickAlways(docs, ok) == [docs |-> Absent, success |-> ok, rerun |-> TRUE]

\* if delete_document(...): st.success, del st.session_state.docs_for_delete,
\* st.rerun(); nothing otherwise
DeleteClick(docs, ok) ==
    IF ok THEN [docs |-> Absent, success |-> TRUE, rerun |-> TRUE]
    ELSE [docs |-> docs, success |-> FALSE, rerun |-> FALSE]

\* delete_document of the variant serving the session
delete_document(variant, r) ==
    IF variant = "app" THEN delete_document_app(r) ELSE delete_document_unibe(r)

\* ------------------------------------------------------------------------
\* The duplicate check of the documents tab (app.py)
\* ------------------------------------------------------------------------

NoReport == [shown |-> "nothing", duplicates |-> EmptyDict, total_dupes |-> 0]

\* name_groups[display_name]: the listed documents of one display name, in
\* listing order
NameGroup(docs, display_name) ==
    SelectSeq(docs, LAMBDA doc : DisplayNameOf(doc) = display_name)

\* duplicates = {name: docs for name, docs in name_groups.items() if len(docs) > 1}
Duplicates(docs) ==
    LET names == {DisplayNameOf(docs[i]) : i \in 1..Len(docs)}
        dupes == {n \in names : Len(NameGroup(docs, n)) > 1}
    IN  [n \in dupes |-> NameGroup(docs, n)]

\* what the branch 'if check_duplicates:' displays for the listing returned
\* by list_documents
CheckDuplicates(docs) ==
    IF docs = <<>> THEN [shown |-> "no_documents", duplicates |-> EmptyDict, total_dupes |-> 0]
    ELSE LET duplicates == Duplicates(docs)
             copies == {i \in 1..Len(docs) : DisplayNameOf(docs[i]) \in DOMAIN duplicates}
         IN  IF DOMAIN duplicates # {}
             THEN [shown |-> "duplicates", duplicates |-> duplicates,
                   total_dupes |-> Cardinality(copies) - Cardinality(DOMAIN duplicates)]
             ELSE [shown |-> "no_duplicates", duplicates |-> EmptyDict, total_dupes |-> 0]

\* ------------------------------------------------------------------------
\* The tab 'Dokumente anzeigen': the listing of 'Dokumente laden' and, in
\* app_unibe.py, the view 'Eigene Uploads', each with a delete button per row
\* ------------------------------------------------------------------------

\* customMetadata of an upload made through the web application
WebappMetadata == << [key |-> "uploaded_via", stringValue |-> "webapp"] >>

Uploaded(doc, metadata) == doc @@ [customMetadata |-> metadata]

\* doc.get('customMetadata', [])
CustomMetadataOf(doc) ==
    IF "customMetadata" \in DOMAIN doc THEN doc.customMetadata ELSE <<>>

\* any(meta.get('key') == 'uploaded_via' and meta.get('stringValue') == 'webapp' ...)
IsWebappUpload(doc) ==
    LET metadata == CustomMetadataOf(doc)
    IN  \E i \in 1..Len(metadata) :
            metadata[i].key = "uploaded_via" /\ metadata[i].stringValue = "webapp"

\* the stores a session starts with: d1 and d2 were uploaded through the web
\* application, d3 was not; no document carries a createTime, so that sorted()
\* keeps the listing order
Stores ==
    LET d1 == Uploaded(StoredDocument("d1", <<"B", "S", "G", " ", "4", "3", "2", ".", "1">>, 1024),
                       WebappMetadata)
        d2 == Uploaded(StoredDocument("d2", <<"B", "S", "G", " ", "4", "3", "2", ".", "1">>, 1024),
                       WebappMetadata)
        d3 == StoredDocument("d3", Missing, 0)
    IN  { <<d1>>, <<d3, d1>>, <<d1, d3, d2>> }

\* what list_documents returns to the tab: the documents of the store, or the
\* empty list after an error
ListAnswer(stored, ok) == IF ok THEN stored ELSE <<>>

\* the store after a DELETE answered by r
StoreAfterDelete(stored, document_name, r) ==
    IF r.kind = "response" /\ r.status \in {200, 204}
    THEN SelectSeq(stored, LAMBDA doc : doc.name # document_name)
    ELSE stored

NamesOf(docs) == [i \in 1..Len(docs) |-> docs[i].name]

\* the widget the user acted on: a button of the tab or the button of a row
DocsClick(kind, name) == [kind |-> kind, name |-> name]
NoDocsClick == DocsClick("none", "none")

NoDocsRun ==
    [click |-> NoDocsClick, events |-> <<>>, load_rows |-> <<>>, own_rows |-> <<>>,
     deleted |-> "none", delete_ok |-> FALSE, rerun |-> FALSE, after_delete |-> -1]

DocsEvent(kind, at) == [kind |-> kind, at |-> at]

\* time.sleep(5.0) after a successful delete in 'Eigene Uploads'
OwnDeleteWait == 5

\* the delete button of a row of 'Eigene Uploads' restarting the script at once
RerunAtOnce(now) == now

\* the time at which the spinner around time.sleep(5.0) is left
AfterOwnDeleteWait(now) == now + OwnDeleteWait

\* One script run of the tab, started at time now by the given click, with
\* list_documents returning listing and a DELETE answered by r. A button
\* returns True only where the script reaches it in the run of its click.
DocsRun(variant, click, show, listing, r, now) ==
    LET show_after == IF variant = "unibe" /\ click.kind = "own_uploads" THEN TRUE ELSE show
        own_view == variant = "unibe" /\ show_after
        own_docs == IF own_view THEN SelectSeq(listing, IsWebappUpload) ELSE <<>>
        own_pressed == /\ click.kind = "del_own"
                       /\ \E i \in 1..Len(own_docs) : own_docs[i].name = click.name
        deleted == delete_document(variant, r)
        own_ok == own_pressed /\ deleted.ok
        own_events ==
            (IF own_view THEN <<DocsEvent("list", now)>> ELSE <<>>)
            \o (IF own_pressed THEN <<DocsEvent("delete", now)>> ELSE <<>>)
            \o (IF own_ok
                THEN <<DocsEvent("sleep", AfterOwnDeleteWait(now)),
                       DocsEvent("rerun", AfterOwnDeleteWait(now))>>
                ELSE <<>>)
        load_button == ~own_ok /\ click.kind = "load_docs"
        load_docs == IF load_button THEN listing ELSE <<>>
        load_pressed == /\ load_button
                        /\ click.kind = "del"
                        /\ \E i \in 1..Len(load_docs) : load_docs[i].name = click.name
        load_ok == load_pressed /\ deleted.ok
        load_events ==
            (IF load_button THEN <<DocsEvent("list", now)>> ELSE <<>>)
            \o (IF load_pressed THEN <<DocsEvent("delete", now)>> ELSE <<>>)
            \o (IF load_ok THEN <<DocsEvent("rerun", now)>> ELSE <<>>)
    IN  [show |-> show_after,
         events |-> own_events \o load_events,
         load_rows |-> NamesOf(load_docs),
         own_rows |-> NamesOf(own_docs),
         delete_called |-> own_pressed \/ load_pressed,
         deleted |-> IF own_pressed \/ load_pressed THEN click.name ELSE "none",
         delete_ok |-> own_ok \/ load_ok,
         rerun |-> own_ok \/ load_ok,
         now |-> IF own_ok THEN AfterOwnDeleteWait(now) ELSE now]

\* the tab in a script run that ended before reaching it
DocsNotReached(show, now) ==
    [show |-> show, events |-> <<>>, load_rows |-> <<>>, own_rows |-> <<>>,
     delete_called |-> FALSE, deleted |-> "none", delete_ok |-> FALSE, rerun |-> FALSE,
     now |-> now]

\* the deletes of one session through the buttons of the rows
MaxRowDeletes == 2

\* ------------------------------------------------------------------------
\* The prompt tab of app_unibe.py
\* ------------------------------------------------------------------------

\* what the text area holds when 'Anwenden' is clicked: the default prompt,
\* the empty text or a text of the user
PromptInputs == {DEFAULT_SYSTEM_PROMPT, "", "custom", "default "}

PromptClick(action, edited) == [action |-> action, edited |-> edited]
NoPromptClick == PromptClick("none", "")

\* 'Anwenden' storing the text as custom prompt whatever it is
ApplyAsCustom(edited) == [custom_system_prompt |-> edited, use_custom_prompt |-> TRUE]

\* 'Anwenden': if edited_prompt != DEFAULT_SYSTEM_PROMPT the text becomes the
\* custom prompt, otherwise the default is stored and the flag cleared
ApplyPrompt(edited) ==
    IF edited # DEFAULT_SYSTEM_PROMPT
    THEN [custom_system_prompt |-> edited, use_custom_prompt |-> TRUE]
    ELSE [custom_system_prompt |-> DEFAULT_SYSTEM_PROMPT, use_custom_prompt |-> FALSE]

\* 'Standard wiederherstellen'
RestorePrompt ==
    [custom_system_prompt |-> DEFAULT_SYSTEM_PROMPT, use_custom_prompt |-> FALSE]

\* ------------------------------------------------------------------------
\* belex_search.py: the sources built inline by BELEXSearchEngine.search
\* ------------------------------------------------------------------------

NoCliResult == [called |-> FALSE, built |-> FALSE, raised |-> FALSE, dict |-> EmptyDict]

\* the loop body with an entry made only for a chunk that has text
CliChunkTextOnly(d, chunk) ==
    IF chunk.retrieved_context = "obj"
    THEN IF chunk.title # Missing
         THEN IF Truthy(chunk.text)
              THEN [t \in DOMAIN d \cup {chunk.title} |->
                      IF t = chunk.title
                      THEN Append(IF t \in DOMAIN d THEN d[t] ELSE <<>>, Strip(chunk.text))
                      ELSE d[t]]
              ELSE d
         ELSE d
    ELSE d

\* the body of 'for chunk in grounding.grounding_chunks' inside search
CliChunk(d, chunk) ==
    IF chunk.retrieved_context = "obj"
    THEN IF chunk.title # Missing
         THEN IF Truthy(chunk.text)
              THEN [t \in DOMAIN d \cup {chunk.title} |->
                      IF t = chunk.title
                      THEN Append(IF t \in DOMAIN d THEN d[t] ELSE <<>>, Strip(chunk.text))
                      ELSE d[t]]
              ELSE IF chunk.title \notin DOMAIN d
              THEN [t \in DOMAIN d \cup {chunk.title} |->
                      IF t = chunk.title THEN <<>> ELSE d[t]]
              ELSE d
         ELSE d
    ELSE d

RECURSIVE CliChunkLoop(_, _)
CliChunkLoop(d, chunks) ==
    IF chunks = <<>> THEN d ELSE CliChunkLoop(CliChunk(d, Head(chunks)), Tail(chunks))

CliResult(built, raised, d) == [called |-> TRUE, built |-> built, raised |-> raised, dict |-> d]

\* The nested conditions around the loop: sources_dict is built only inside
\* the innermost one; len() of an attribute holding None raises inside the try
\* block of search.
cli_sources_dict(r) ==
    IF r.candidates = "missing" THEN CliResult(FALSE, FALSE, EmptyDict)
    ELSE IF r.candidates = "None" THEN CliResult(FALSE, TRUE, EmptyDict)
    ELSE IF Len(r.cands) > 0
    THEN LET candidate == r.cands[1]
         IN  IF candidate.grounding_metadata = "missing"
             THEN CliResult(FALSE, FALSE, EmptyDict)
             ELSE IF candidate.grounding_metadata = "None"
             THEN CliResult(FALSE, FALSE, EmptyDict)
             ELSE IF candidate.grounding_chunks = "missing"
             THEN CliResult(FALSE, FALSE, EmptyDict)
             ELSE IF candidate.grounding_chunks = "None"
             THEN CliResult(FALSE, TRUE, EmptyDict)
             ELSE IF Len(candidate.chunks) > 0
             THEN CliResult(TRUE, FALSE, CliChunkLoop(EmptyDict, candidate.chunks))
             ELSE CliResult(FALSE, FALSE, EmptyDict)
    ELSE CliResult(FALSE, FALSE, EmptyDict)

\* bsg_match = re.search(r'BSG[\s_]?([\d.]+(?:-\d+)?)', title); bsg_nr =
\* bsg_match.group(1) when there is a match: the pattern of the web variants
CliBsgNumber(s) ==
    LET bsg_match == SearchFrom(s, 1)
    IN  IF bsg_match # None THEN bsg_match ELSE None

\* ------------------------------------------------------------------------
\* Specifications
\* ------------------------------------------------------------------------

NoResult == [raised |-> FALSE, dict |-> EmptyDict]

ExtractIdle ==
    /\ title = <<>>
    /\ bsg_result = Unset
    /\ cli_bsg_nr = Unset

FormatIdle ==
    /\ response = ResponseOf(<<>>)
    /\ format_calls = 0
    /\ sources_dict = NoResult
    /\ sources_again = NoResult
    /\ cli_sources = NoCliResult

DocsTabIdle ==
    /\ dup_report = NoReport
    /\ show_own_uploads = FALSE
    /\ docs_run = NoDocsRun
    /\ store = <<>>
    /\ deleted_names = {}

CatalogIdle ==
    /\ DocsTabIdle
    /\ documents = <<>>
    /\ catalog_loaded = FALSE
    /\ rechtsbuecher = EmptyDict
    /\ documents_without_bsg = <<>>
    /\ sorted_rechtsbuecher = <<>>

LawIdle ==
    /\ clock = 0
    /\ ticks = 0
    /\ law_cache = [b \in BsgNumbers |-> NoEntry]
    /\ law_requests = <<>>
    /\ law_calls = 0
    /\ law_last = [bsg_number |-> <<>>, age |-> -1, requested |-> FALSE,
                   outcome |-> HttpOutcome("none", 0, "none", Missing, Missing)]
    /\ law_return = [raised |-> FALSE, value |-> None]

ListIdle ==
    /\ list_pc = "idle"
    /\ list_docs = <<>>
    /\ page_token = None
    /\ list_requests = <<>>
    /\ list_answers = <<>>
    /\ list_return = <<>>
    /\ list_errors = <<>>

DeleteIdle ==
    /\ del_requests = <<>>
    /\ del_last = [variant |-> "none", document_name |-> "",
                   answer |-> DeleteAnswer("none", 0, <<>>)]
    /\ del_return = FALSE
    /\ del_errors = <<>>

SessionIdle ==
    /\ app_variant = "none"
    /\ secrets = [api_key |-> Missing, filestore_id |-> Missing]
    /\ has_engine = FALSE
    /\ run_status = "none"

NoTabRun == [action |-> "none", docs_before |-> Absent, success |-> FALSE, rerun |-> FALSE]

DeleteTabIdle ==
    /\ docs_for_delete = Absent
    /\ delete_tab_run = NoTabRun

UploadIdle ==
    /\ tmp_files = {}
    /\ tmp_created = 0
    /\ ingest_calls = <<>>
    /\ up_calls = 0
    /\ up_last = NoUpload
    /\ up_return = None
    /\ up_errors = 0

UploadTabIdle ==
    /\ uploaded_file = NoFile
    /\ upload_tab_run = UploadTabRender(NoFile)

SearchIdle ==
    /\ last_query = <<>>
    /\ last_response = NoResponse
    /\ example_query = Missing
    /\ use_custom_prompt = FALSE
    /\ custom_system_prompt = DEFAULT_SYSTEM_PROMPT
    /\ prompt_last = NoPromptClick
    /\ gen_calls = 0
    /\ gen_last = NoCall
    /\ last_search = [query |-> <<>>, result |-> NoResponse, raised |-> FALSE]
    /\ submissions = 0
    /\ search_run = NoSearchRun

CliIdle ==
    /\ cli_config = [exists |-> FALSE, api_key |-> Missing, filestore_id |-> Missing]
    /\ cli_argv = <<>>
    /\ cli_pc = "start"
    /\ cli_exit = -1
    /\ cli_engine = FALSE
    /\ cli_reads = 0
    /\ cli_last = NoInput

WebIdle ==
    /\ SessionIdle
    /\ DeleteTabIdle
    /\ UploadIdle
    /\ UploadTabIdle
    /\ SearchIdle
    /\ CliIdle

\* ---- end of the idle states ----

\* extract_bsg_number applied to a title
ExtractInit ==
    /\ title \in Titles
    /\ bsg_result = Unset
    /\ cli_bsg_nr = Unset
    /\ FormatIdle
    /\ CatalogIdle
    /\ LawIdle
    /\ ListIdle
    /\ DeleteIdle
    /\ WebIdle

ExtractBsgNumber ==
    /\ bsg_result = Unset
    /\ bsg_result' = extract_bsg_number(title)
    /\ UNCHANGED <<title, cli_bsg_nr, formatVars, catalogVars, lawVars, listVars, deleteVars,
                   webVars>>

ExtractNext == ExtractBsgNumber

SpecExtract == ExtractInit /\ [][ExtractNext]_vars

\* format_grounding_chunks applied to a response, and applied to it again
FormatInit ==
    /\ response \in Responses
    /\ format_calls = 0
    /\ sources_dict = NoResult
    /\ sources_again = NoResult
    /\ cli_sources = NoCliResult
    /\ ExtractIdle
    /\ CatalogIdle
    /\ LawIdle
    /\ ListIdle
    /\ DeleteIdle
    /\ WebIdle

FormatGroundingChunks ==
    /\ format_calls = 0
    /\ sources_dict' = format_grounding_chunks(response)
    /\ format_calls' = 1
    /\ UNCHANGED <<response, sources_again, cli_sources, extractVars, catalogVars, lawVars,
                   listVars, deleteVars, webVars>>

FormatGroundingChunksAgain ==
    /\ format_calls = 1
    /\ sources_again' = format_grounding_chunks(response)
    /\ format_calls' = 2
    /\ UNCHANGED <<response, sources_dict, cli_sources, extractVars, catalogVars, lawVars,
                   listVars, deleteVars, webVars>>

FormatNext == FormatGroundingChunks \/ FormatGroundingChunksAgain

SpecFormat == FormatInit /\ [][FormatNext]_vars

\* the 'Dokumente laden' button: the listing is grouped and the groups ordered
CatalogInit ==
    /\ CatalogIdle
    /\ ExtractIdle
    /\ FormatIdle
    /\ LawIdle
    /\ ListIdle
    /\ DeleteIdle
    /\ WebIdle

LoadButton ==
    /\ ~catalog_loaded
    /\ \E docs \in DocLists :
        /\ documents' = docs
        /\ catalog_loaded' = TRUE
        /\ IF docs # <<>>
           THEN LET g == GroupDocuments(docs)
                IN  /\ rechtsbuecher' = g.rechtsbuecher
                    /\ documents_without_bsg' = g.documents_without_bsg
                    /\ sorted_rechtsbuecher' = SortedKeys(DOMAIN g.rechtsbuecher)
           ELSE UNCHANGED <<rechtsbuecher, documents_without_bsg, sorted_rechtsbuecher>>
    /\ UNCHANGED <<docsTabVars, extractVars, formatVars, lawVars, listVars, deleteVars, webVars>>

CatalogNext == LoadButton

SpecCatalog == CatalogInit /\ [][CatalogNext]_vars

\* the seconds since the entry was stored, -1 when there is none
EntryAge(entry, now) == IF entry.present THEN now - entry.stored_at ELSE -1

\* calls of get_law_name in one server process, with time passing in between
LawInit ==
    /\ LawIdle
    /\ ExtractIdle
    /\ FormatIdle
    /\ CatalogIdle
    /\ ListIdle
    /\ DeleteIdle
    /\ WebIdle

\* One call get_law_name(b). A fresh entry is returned without running the
\* body; otherwise the body runs, its GET is answered by o, and the returned
\* value is stored at the time the body ends (an exception is not stored).
GetLawName(b, o) ==
    /\ law_calls < MaxLawCalls
    /\ law_calls' = law_calls + 1
    /\ IF Fresh(law_cache[b], clock)
       THEN /\ law_return' = [raised |-> FALSE, value |-> law_cache[b].value]
            /\ law_last' = [bsg_number |-> b, age |-> EntryAge(law_cache[b], clock),
                            requested |-> FALSE, outcome |-> law_last.outcome]
            /\ UNCHANGED <<clock, law_cache, law_requests>>
       ELSE LET r == LawBody(o)
                done == clock + LawRequestTime(o)
            IN  /\ law_requests' = Append(law_requests, [bsg_number |-> b, at |-> clock])
                /\ clock' = done
                /\ law_return' = r
                /\ law_last' = [bsg_number |-> b, age |-> EntryAge(law_cache[b], clock),
                                requested |-> TRUE, outcome |-> o]
                /\ law_cache' = IF r.raised THEN law_cache
                                ELSE [law_cache EXCEPT ![b] =
                                        [present |-> TRUE, value |-> r.value, stored_at |-> done]]
    /\ UNCHANGED <<ticks, extractVars, formatVars, catalogVars, listVars, deleteVars, webVars>>

Tick(d) ==
    /\ ticks < MaxTicks
    /\ ticks' = ticks + 1
    /\ clock' = clock + d
    /\ UNCHANGED <<law_cache, law_requests, law_calls, law_last, law_return,
                   extractVars, formatVars, catalogVars, listVars, deleteVars, webVars>>

LawNext ==
    \/ \E b \in BsgNumbers : \E o \in LawOutcomes : GetLawName(b, o)
    \/ \E d \in TickSteps : Tick(d)

SpecLaw == LawInit /\ [][LawNext]_vars

\* one call of list_documents against a store that answers page by page
ListInit ==
    /\ ListIdle
    /\ ExtractIdle
    /\ FormatIdle
    /\ CatalogIdle
    /\ LawIdle
    /\ DeleteIdle
    /\ WebIdle

\* documents = []; page_token = None
ListStart ==
    /\ list_pc = "idle"
    /\ list_pc' = "loop"
    /\ list_docs' = <<>>
    /\ page_token' = None
    /\ UNCHANGED <<list_requests, list_answers, list_return, list_errors>>
    /\ UNCHANGED <<extractVars, formatVars, catalogVars, lawVars, deleteVars, webVars>>

\* one turn of 'while True': the request, and what the answer r leads to
ListPage(r) ==
    /\ list_pc = "loop"
    /\ Len(list_requests) < MaxRequests
    /\ list_requests' = Append(list_requests, ListParams(page_token))
    /\ list_answers' = Append(list_answers, r)
    /\ IF r.kind = "exception"
       THEN /\ list_errors' = list_errors \o ListExceptionErrors
            /\ list_return' = ListReturnOnException(list_docs)
            /\ list_pc' = "returned"
            /\ UNCHANGED <<list_docs, page_token>>
       ELSE IF r.status = 200
       THEN /\ list_docs' = ListExtend(list_docs, r)
            /\ page_token' = NextPageToken(r)
            /\ IF ~Truthy(NextPageToken(r))
               THEN /\ list_return' = ListExtend(list_docs, r)
                    /\ list_pc' = "returned"
               ELSE UNCHANGED <<list_return, list_pc>>
            /\ UNCHANGED list_errors
       ELSE /\ list_errors' = list_errors \o ListStatusErrors(r)
            /\ list_return' = ListReturnOnError(list_docs)
            /\ list_pc' = "returned"
            /\ UNCHANGED <<list_docs, page_token>>
    /\ UNCHANGED <<extractVars, formatVars, catalogVars, lawVars, deleteVars, webVars>>

ListNext ==
    \/ ListStart
    \/ \E r \in PageAnswers : ListPage(r)

SpecList == ListInit /\ [][ListNext]_vars

\* calls of delete_document of the two application variants
DeleteInit ==
    /\ DeleteIdle
    /\ ExtractIdle
    /\ FormatIdle
    /\ CatalogIdle
    /\ LawIdle
    /\ ListIdle
    /\ WebIdle

DeleteDocumentApp(document_name, r) ==
    /\ Len(del_requests) < MaxDeletes
    /\ del_requests' = Append(del_requests, DeleteRequest(document_name))
    /\ del_last' = [variant |-> "app", document_name |-> document_name, answer |-> r]
    /\ del_return' = delete_document_app(r).ok
    /\ del_errors' = delete_document_app(r).errors
    /\ UNCHANGED <<extractVars, formatVars, catalogVars, lawVars, listVars, webVars>>

DeleteDocumentUnibe(document_name, r) ==
    /\ Len(del_requests) < MaxDeletes
    /\ del_requests' = Append(del_requests, DeleteRequest(document_name))
    /\ del_last' = [variant |-> "unibe", document_name |-> document_name, answer |-> r]
    /\ del_return' = delete_document_unibe(r).ok
    /\ del_errors' = delete_document_unibe(r).errors
    /\ UNCHANGED <<extractVars, formatVars, catalogVars, lawVars, listVars, webVars>>

DeleteNext ==
    \/ \E n \in DocumentNames : \E r \in DeleteAnswers : DeleteDocumentApp(n, r)
    \/ \E n \in DocumentNames : \E r \in DeleteAnswers : DeleteDocumentUnibe(n, r)

SpecDelete == DeleteInit /\ [][DeleteNext]_vars

\* a session of one of the two applications, started under any content of
\* the secrets store
SessionInit ==
    /\ app_variant \in AppVariants
    /\ secrets \in SecretStores
    /\ has_engine = FALSE
    /\ run_status = "none"

\* the session after the search tab and the sidebar did r in a script run
\* started by the given click
ApplyRun(click, example, r) ==
    /\ last_query' = r.last_query
    /\ last_response' = r.last_response
    /\ example_query' = r.example_query
    /\ gen_calls' = gen_calls + Len(r.calls)
    /\ gen_last' = IF r.calls # <<>> THEN r.calls[Len(r.calls)] ELSE gen_last
    /\ last_search' = IF r.results # <<>> THEN r.results[Len(r.results)] ELSE last_search
    /\ submissions' = submissions
                        + (IF click # Missing /\ Strip(click) # <<>> THEN 1 ELSE 0)
                        + (IF example # Missing THEN 1 ELSE 0)
    /\ search_run' = [click |-> click, example |-> example, query_before |-> last_query,
                      response_before |-> last_response, searches |-> Len(r.results),
                      failed |-> \E i \in 1..Len(r.results) : r.results[i].raised,
                      messages |-> r.messages, shown |-> r.shown, status |-> r.status]
    /\ run_status' = r.status
    /\ delete_tab_run' = NoTabRun
    /\ upload_tab_run' = IF r.status = "raised" THEN UploadTabRender(NoFile)
                         ELSE UploadTabRender(uploaded_file)
    /\ UNCHANGED <<use_custom_prompt, custom_system_prompt, prompt_last>>

\* A script run without a widget event (the page is opened or reloaded): the
\* run stops in load_config, or the session is set up and the page rendered.
PageLoad(o) ==
    /\ app_variant \in AppVariants
    /\ run_status # "rerun"
    /\ has_engine' = SessionStart(has_engine, secrets)
    /\ IF SessionStart(has_engine, secrets)
       THEN ApplyRun(Missing, Missing, ScriptRun(Missing, Missing, o, o))
       ELSE /\ run_status' = "halted"
            /\ delete_tab_run' = NoTabRun
            /\ upload_tab_run' = UploadTabRender(NoFile)
            /\ UNCHANGED searchVars
    /\ UNCHANGED <<app_variant, secrets, docs_for_delete, uploaded_file>>

\* the script run started by st.rerun()
Rerun(o) ==
    /\ run_status = "rerun"
    /\ ApplyRun(Missing, Missing, ScriptRun(Missing, Missing, o, o))
    /\ UNCHANGED <<app_variant, secrets, has_engine, docs_for_delete, uploaded_file>>

\* the script run of a click on 'Suchen' with the text area holding query;
\* the button is on the page whenever the preceding run got past the set-up
ClickSearch(query, o1, o2) ==
    /\ run_status \in {"rendered", "raised"}
    /\ submissions < MaxSubmissions
    /\ ApplyRun(query, Missing, ScriptRun(query, Missing, o1, o2))
    /\ UNCHANGED <<app_variant, secrets, has_engine, docs_for_delete, uploaded_file>>

\* the script run of a click on an example button of the sidebar
ClickExample(example, o) ==
    /\ run_status = "rendered"
    /\ submissions < MaxSubmissions
    /\ ApplyRun(Missing, example, ScriptRun(Missing, example, o, o))
    /\ UNCHANGED <<app_variant, secrets, has_engine, docs_for_delete, uploaded_file>>

\* the script run of a click on 'Dokumente fuer Loeschung laden': the list
\* returned by list_documents is put into the session
LoadForDelete(listing) ==
    /\ run_status = "rendered"
    /\ docs_for_delete' = Held(listing)
    /\ delete_tab_run' = [action |-> "load", docs_before |-> docs_for_delete,
                          success |-> FALSE, rerun |-> FALSE]
    /\ UNCHANGED <<sessionVars, deleteVars, uploadVars, uploadTabVars, searchVars>>

\* The script run of a click on 'Endgueltig loeschen' with the i-th option
\* selected: the options are rebuilt from the session's list, the selected
\* label is looked up, delete_document is called and answered by r.
DeleteSelected(i, reachable, r) ==
    /\ run_status = "rendered"
    /\ docs_for_delete.present
    /\ docs_for_delete.docs # <<>>
    /\ Len(del_requests) < MaxTabDeletes
    /\ LET doc_options == DocOptions(docs_for_delete.docs, reachable)
       IN  /\ i \in 1..Len(doc_options)
           /\ LET doc_name == doc_options[i].name
                  deleted == delete_document(app_variant, r)
                  click == DeleteClick(docs_for_delete, deleted.ok)
              IN  /\ del_requests' = Append(del_requests, DeleteRequest(doc_name))
                  /\ del_last' = [variant |-> app_variant, document_name |-> doc_name,
                                  answer |-> r]
                  /\ del_return' = deleted.ok
                  /\ del_errors' = deleted.errors
                  /\ docs_for_delete' = click.docs
                  /\ delete_tab_run' = [action |-> "delete", docs_before |-> docs_for_delete,
                                        success |-> click.success, rerun |-> click.rerun]
                  /\ run_status' = IF click.rerun THEN "rerun" ELSE "rendered"
    /\ UNCHANGED <<app_variant, secrets, has_engine, uploadVars, uploadTabVars, searchVars>>

DeleteTabInit ==
    /\ SessionInit
    /\ DeleteTabIdle
    /\ UploadIdle
    /\ UploadTabIdle
    /\ SearchIdle
    /\ CliIdle
    /\ ExtractIdle
    /\ FormatIdle
    /\ CatalogIdle
    /\ LawIdle
    /\ ListIdle
    /\ DeleteIdle

OutsideDeleteTab == <<extractVars, formatVars, catalogVars, lawVars, listVars, cliVars>>

DeleteTabNext ==
    \/ \E o \in SearchOutcomes : PageLoad(o) /\ UNCHANGED <<OutsideDeleteTab, deleteVars, uploadVars>>
    \/ \E o \in SearchOutcomes : Rerun(o) /\ UNCHANGED <<OutsideDeleteTab, deleteVars, uploadVars>>
    \/ \E listing \in Listings : LoadForDelete(listing) /\ UNCHANGED OutsideDeleteTab
    \/ \E i \in 1..MaxListed : \E reachable \in BOOLEAN : \E r \in DeleteAnswers :
          DeleteSelected(i, reachable, r) /\ UNCHANGED OutsideDeleteTab

SpecDeleteTab == DeleteTabInit /\ [][DeleteTabNext]_vars

\* One call of upload_file_to_filestore: the temporary file gets the next
\* free path, datetime.now() reads the number of the call.
Upload(variant, filestore_id, file, display_name, env) ==
    LET tmp_path == tmp_created + 1
        res == upload_file_to_filestore(variant, filestore_id, file, display_name, env,
                                        tmp_path, up_calls + 1)
    IN  /\ tmp_created' = IF res.created THEN tmp_path ELSE tmp_created
        /\ tmp_files' = IF res.left THEN tmp_files \cup {tmp_path} ELSE tmp_files
        /\ ingest_calls' = ingest_calls \o res.calls
        /\ up_calls' = up_calls + 1
        /\ up_last' = [variant |-> variant, file |-> file, display_name |-> display_name,
                       env |-> env, created |-> res.created, calls |-> Len(res.calls)]
        /\ up_return' = res.ret
        /\ up_errors' = res.errors

\* calls of upload_file_to_filestore of the two application variants
UploadInit ==
    /\ UploadIdle
    /\ UploadTabIdle
    /\ SessionIdle
    /\ DeleteTabIdle
    /\ SearchIdle
    /\ CliIdle
    /\ ExtractIdle
    /\ FormatIdle
    /\ CatalogIdle
    /\ LawIdle
    /\ ListIdle
    /\ DeleteIdle

OutsideUpload == <<extractVars, formatVars, catalogVars, lawVars, listVars, deleteVars,
                   deleteTabVars, searchVars, cliVars>>

UploadFileToFilestore(variant, file, display_name, env) ==
    /\ up_calls < MaxUploads
    /\ Upload(variant, ConfiguredStore, file, display_name, env)
    /\ UNCHANGED <<OutsideUpload, sessionVars, uploadTabVars>>

UploadNext ==
    \E variant \in AppVariants : \E file \in UploadedFiles :
    \E display_name \in DisplayNameInputs : \E env \in UploadEnvironments :
        UploadFileToFilestore(variant, file, display_name, env)

SpecUpload == UploadInit /\ [][UploadNext]_vars

\* the script run of a change of the file uploader: the file is submitted
\* and the tab shows the error message or the button
SubmitFile(file) ==
    /\ run_status = "rendered"
    /\ uploaded_file' = file
    /\ upload_tab_run' = UploadTabRender(file)
    /\ delete_tab_run' = NoTabRun
    /\ UNCHANGED <<sessionVars, uploadVars, docs_for_delete, searchVars>>

\* The script run of a click on 'Hochladen', a button of the preceding run:
\* the size is checked again and upload_file_to_filestore is called with the
\* session's store and the text of the name input.
ClickUpload(display_name, env) ==
    /\ run_status = "rendered"
    /\ upload_tab_run.offered
    /\ up_calls < MaxUploads
    /\ IF uploaded_file # NoFile /\ ~TooLarge(uploaded_file)
       THEN /\ Upload(app_variant, secrets.filestore_id, uploaded_file, display_name, env)
            /\ upload_tab_run' = [UploadTabRender(uploaded_file) EXCEPT
                                    !.called = TRUE, !.success = Truthy(up_return')]
       ELSE /\ upload_tab_run' = UploadTabRender(uploaded_file)
            /\ UNCHANGED uploadVars
    /\ delete_tab_run' = NoTabRun
    /\ UNCHANGED <<sessionVars, uploaded_file, docs_for_delete, searchVars>>

UploadTabInit ==
    /\ SessionInit
    /\ UploadIdle
    /\ UploadTabIdle
    /\ DeleteTabIdle
    /\ SearchIdle
    /\ CliIdle
    /\ ExtractIdle
    /\ FormatIdle
    /\ CatalogIdle
    /\ LawIdle
    /\ ListIdle
    /\ DeleteIdle

OutsideUploadTab == <<extractVars, formatVars, catalogVars, lawVars, listVars, deleteVars,
                      cliVars>>

UploadTabNext ==
    \/ \E o \in SearchOutcomes : PageLoad(o) /\ UNCHANGED <<OutsideUploadTab, uploadVars>>
    \/ \E file \in UploadedFiles : SubmitFile(file) /\ UNCHANGED OutsideUploadTab
    \/ \E display_name \in DisplayNameInputs : \E env \in UploadEnvironments :
          ClickUpload(display_name, env) /\ UNCHANGED OutsideUploadTab

SpecUploadTab == UploadTabInit /\ [][UploadTabNext]_vars

\* a session in which the user searches: the search button, the example
\* buttons and page reloads
SearchTabInit ==
    /\ SessionInit
    /\ SearchIdle
    /\ DeleteTabIdle
    /\ UploadIdle
    /\ UploadTabIdle
    /\ CliIdle
    /\ ExtractIdle
    /\ FormatIdle
    /\ CatalogIdle
    /\ LawIdle
    /\ ListIdle
    /\ DeleteIdle

OutsideSearchTab == <<extractVars, formatVars, catalogVars, lawVars, listVars, deleteVars,
                      uploadVars, cliVars>>

SearchTabNext ==
    \/ \E o \in SearchOutcomes : PageLoad(o) /\ UNCHANGED OutsideSearchTab
    \/ \E o \in SearchOutcomes : Rerun(o) /\ UNCHANGED OutsideSearchTab
    \/ \E query \in QueryInputs : \E o1, o2 \in SearchOutcomes :
          ClickSearch(query, o1, o2) /\ UNCHANGED OutsideSearchTab
    \/ \E example \in ExampleQueries : \E o \in SearchOutcomes :
          ClickExample(example, o) /\ UNCHANGED OutsideSearchTab

SpecSearchTab == SearchTabInit /\ [][SearchTabNext]_vars

\* the search engine's call recorded in the variables of the search
CliSearch(query, o) ==
    LET s == engine_search(query, o)
    IN  /\ gen_calls' = gen_calls + 1
        /\ gen_last' = s.call
        /\ last_search' = [query |-> query, result |-> s.ret, raised |-> o.kind # "response"]
        /\ submissions' = submissions + 1

\* main up to the loop: the configuration is validated, the engine is
\* constructed, and a query given as arguments is searched
CliMain(o) ==
    /\ app_variant = "cli"
    /\ cli_pc = "start"
    /\ IF CliConfigRejected(cli_config)
       THEN /\ cli_pc' = "exited"
            /\ cli_exit' = 1
            /\ UNCHANGED <<cli_engine, gen_calls, gen_last, last_search, submissions>>
       ELSE /\ cli_engine' = TRUE
            /\ IF Len(cli_argv) > 0
               THEN /\ CliSearch(Join(cli_argv), o)
                    /\ cli_pc' = "exited"
                    /\ cli_exit' = 0
               ELSE /\ cli_pc' = "loop"
                    /\ UNCHANGED <<cli_exit, gen_calls, gen_last, last_search, submissions>>
    /\ UNCHANGED <<cli_config, cli_argv, cli_reads, cli_last>>
    /\ UNCHANGED <<last_query, last_response, example_query, use_custom_prompt,
                   custom_system_prompt, prompt_last, search_run>>

\* one turn of the interactive loop
CliInput(event, line, o) ==
    /\ app_variant = "cli"
    /\ cli_pc = "loop"
    /\ cli_reads < MaxInputs
    /\ cli_reads' = cli_reads + 1
    /\ LET turn == LoopTurn(event, line, o)
       IN  /\ IF turn.searched THEN CliSearch(turn.query, o)
              ELSE UNCHANGED <<gen_calls, gen_last, last_search, submissions>>
           /\ cli_last' = [event |-> event, line |-> line,
                           outcome |-> IF turn.searched THEN o.kind ELSE "none",
                           searches |-> IF turn.searched THEN 1 ELSE 0,
                           ended |-> turn.ended]
           /\ cli_pc' = IF turn.ended THEN "exited" ELSE "loop"
           /\ cli_exit' = IF turn.ended THEN 0 ELSE cli_exit
    /\ UNCHANGED <<cli_config, cli_argv, cli_engine>>
    /\ UNCHANGED <<last_query, last_response, example_query, use_custom_prompt,
                   custom_system_prompt, prompt_last, search_run>>

\* a run of belex_search.py under any config.json and any arguments
CliInit ==
    /\ app_variant = "cli"
    /\ secrets = [api_key |-> Missing, filestore_id |-> Missing]
    /\ has_engine = FALSE
    /\ run_status = "none"
    /\ cli_config \in CliConfigs
    /\ cli_argv \in CliArgvs
    /\ cli_pc = "start"
    /\ cli_exit = -1
    /\ cli_engine = FALSE
    /\ cli_reads = 0
    /\ cli_last = NoInput
    /\ SearchIdle
    /\ DeleteTabIdle
    /\ UploadIdle
    /\ UploadTabIdle
    /\ ExtractIdle
    /\ FormatIdle
    /\ CatalogIdle
    /\ LawIdle
    /\ ListIdle
    /\ DeleteIdle

OutsideCli == <<extractVars, formatVars, catalogVars, lawVars, listVars, deleteVars,
                sessionVars, deleteTabVars, uploadVars, uploadTabVars>>

CliNext ==
    \/ \E o \in SearchOutcomes : CliMain(o) /\ UNCHANGED OutsideCli
    \/ \E event \in InputEvents : \E line \in InputLines : \E o \in CliSearchOutcomes :
          CliInput(event, line, o) /\ UNCHANGED OutsideCli

SpecCli == CliInit /\ [][CliNext]_vars

\* the three front ends of the search: a session of app.py or app_unibe.py,
\* or a run of belex_search.py
SearchInit == SearchTabInit \/ CliInit

SearchNext == SearchTabNext \/ CliNext

SpecSearch == SearchInit /\ [][SearchNext]_vars

\* one of the three functions of the catalog client is called, again and
\* again: list_documents, delete_document or upload_file_to_filestore
ClientInit ==
    /\ ListIdle
    /\ DeleteIdle
    /\ WebIdle
    /\ ExtractIdle
    /\ FormatIdle
    /\ CatalogIdle
    /\ LawIdle

ClientNext ==
    \/ DeleteIdle /\ UploadIdle /\ ListNext
    \/ ListIdle /\ UploadIdle /\ DeleteNext
    \/ ListIdle /\ DeleteIdle /\ UploadNext

SpecClient == ClientInit /\ [][ClientNext]_vars

\* what marks a session in which the search, the delete tab or the upload
\* tab has not been used
SearchUnused ==
    gen_calls = 0 /\ submissions = 0 /\ example_query = Missing /\ search_run.click = Missing
DeleteTabUnused == ~docs_for_delete.present /\ del_requests = <<>>
UploadTabUnused == uploaded_file = NoFile /\ up_calls = 0

\* a session of one of the web applications or a run of the command line,
\* started under any configuration; a session uses one of the three parts
\* of the page
StartupInit == SearchTabInit \/ CliInit

StartupNext ==
    \/ DeleteTabUnused /\ UploadTabUnused /\ SearchTabNext
    \/ SearchUnused /\ UploadTabUnused /\ DeleteTabNext
    \/ SearchUnused /\ DeleteTabUnused /\ UploadTabNext
    \/ CliNext

SpecStartup == StartupInit /\ [][StartupNext]_vars

\* The button 'Duplikate pruefen': the listing is fetched and checked
DuplicatesInit ==
    /\ CatalogIdle
    /\ ExtractIdle
    /\ FormatIdle
    /\ LawIdle
    /\ ListIdle
    /\ DeleteIdle
    /\ WebIdle

CheckDuplicatesButton ==
    /\ dup_report = NoReport
    /\ \E docs \in DocLists :
        /\ documents' = docs
        /\ dup_report' = CheckDuplicates(docs)
    /\ UNCHANGED <<catalog_loaded, rechtsbuecher, documents_without_bsg, sorted_rechtsbuecher,
                   show_own_uploads, docs_run, store, deleted_names,
                   extractVars, formatVars, lawVars, listVars, deleteVars, webVars>>

DuplicatesNext == CheckDuplicatesButton

SpecDuplicates == DuplicatesInit /\ [][DuplicatesNext]_vars

\* ------------------------------------------------------------------------
\* The documents tab: script runs of the listing, of 'Eigene Uploads' and of
\* the delete tab over one store
\* ------------------------------------------------------------------------

\* the time of the successful delete in 'Eigene Uploads' the last run made,
\* or -1
OwnDeleteAt ==
    IF docs_run.click.kind = "del_own" /\ docs_run.delete_ok
    THEN docs_run.events[CHOOSE i \in 1..Len(docs_run.events) :
                             docs_run.events[i].kind = "delete"].at
    ELSE -1

\* the session after the tab did d in a script run started by click
ApplyDocsRun(click, d) ==
    /\ show_own_uploads' = d.show
    /\ docs_run' = [click |-> click, events |-> d.events, load_rows |-> d.load_rows,
                    own_rows |-> d.own_rows, deleted |-> d.deleted,
                    delete_ok |-> d.delete_ok, rerun |-> d.rerun,
                    after_delete |-> OwnDeleteAt]
    /\ clock' = d.now

OutsideDocsTab == <<extractVars, formatVars, documents, catalog_loaded, rechtsbuecher,
                    documents_without_bsg, sorted_rechtsbuecher, dup_report, ticks,
                    law_cache, law_requests, law_calls, law_last, law_return, listVars,
                    uploadVars, cliVars>>

\* the tab in a script run started by something else than one of its widgets
DocsPassiveRun(ok) ==
    ApplyDocsRun(NoDocsClick,
                 IF run_status' \in {"halted", "raised"}
                 THEN DocsNotReached(show_own_uploads, clock)
                 ELSE DocsRun(app_variant, NoDocsClick, show_own_uploads,
                              ListAnswer(store, ok), DeleteAnswer("exception", 0, <<>>), clock))

DocsPageLoad(o, ok) ==
    /\ PageLoad(o)
    /\ DocsPassiveRun(ok)
    /\ UNCHANGED <<OutsideDocsTab, deleteVars, store, deleted_names>>

DocsRerun(o, ok) ==
    /\ Rerun(o)
    /\ DocsPassiveRun(ok)
    /\ UNCHANGED <<OutsideDocsTab, deleteVars, store, deleted_names>>

DocsLoadForDelete(ok) ==
    /\ LoadForDelete(ListAnswer(store, ok))
    /\ DocsPassiveRun(ok)
    /\ UNCHANGED <<OutsideDocsTab, store, deleted_names>>

DocsDeleteSelected(i, reachable, r, ok) ==
    /\ DeleteSelected(i, reachable, r)
    /\ ApplyDocsRun(NoDocsClick,
                    DocsRun(app_variant, NoDocsClick, show_own_uploads, ListAnswer(store, ok),
                            r, clock))
    /\ store' = StoreAfterDelete(store, del_last'.document_name, r)
    /\ deleted_names' = IF del_return' THEN deleted_names \cup {del_last'.document_name}
                        ELSE deleted_names
    /\ UNCHANGED OutsideDocsTab

\* The script run of a click on a widget of the tab: the tab is executed with
\* that widget's button returning True where the script reaches it, and
\* st.rerun() ends the run.
ClickDocs(click, ok, r) ==
    /\ run_status = "rendered"
    /\ LET d == DocsRun(app_variant, click, show_own_uploads, ListAnswer(store, ok), r, clock)
           deleted == delete_document(app_variant, r)
       IN  /\ ApplyDocsRun(click, d)
           /\ IF d.delete_called
              THEN /\ del_requests' = Append(del_requests, DeleteRequest(d.deleted))
                   /\ del_last' = [variant |-> app_variant, document_name |-> d.deleted,
                                   answer |-> r]
                   /\ del_return' = deleted.ok
                   /\ del_errors' = deleted.errors
                   /\ store' = StoreAfterDelete(store, d.deleted, r)
              ELSE UNCHANGED <<deleteVars, store>>
           /\ deleted_names' = IF d.delete_ok THEN deleted_names \cup {d.deleted}
                               ELSE deleted_names
           /\ run_status' = IF d.rerun THEN "rerun" ELSE "rendered"
    /\ delete_tab_run' = NoTabRun
    /\ UNCHANGED <<app_variant, secrets, has_engine, docs_for_delete, uploadTabVars,
                   searchVars, OutsideDocsTab>>

\* 'Dokumente laden'
ClickLoadDocs(ok) ==
    ClickDocs(DocsClick("load_docs", "none"), ok, DeleteAnswer("exception", 0, <<>>))

\* 'Eigene Uploads' (app_unibe.py)
ClickOwnUploads(ok) ==
    /\ app_variant = "unibe"
    /\ ClickDocs(DocsClick("own_uploads", "none"), ok, DeleteAnswer("exception", 0, <<>>))

\* the delete button of a row of the listing, on the page after the last run
ClickRowDelete(name, ok, r) ==
    /\ \E i \in 1..Len(docs_run.load_rows) : docs_run.load_rows[i] = name
    /\ ClickDocs(DocsClick("del", name), ok, r)

\* the delete button of a row of 'Eigene Uploads', on the page after the last run
ClickOwnRowDelete(name, ok, r) ==
    /\ \E i \in 1..Len(docs_run.own_rows) : docs_run.own_rows[i] = name
    /\ Len(del_requests) < MaxRowDeletes
    /\ ClickDocs(DocsClick("del_own", name), ok, r)

DocsTabInit ==
    /\ SessionInit
    /\ store \in Stores
    /\ dup_report = NoReport
    /\ show_own_uploads = FALSE
    /\ docs_run = NoDocsRun
    /\ deleted_names = {}
    /\ documents = <<>>
    /\ catalog_loaded = FALSE
    /\ rechtsbuecher = EmptyDict
    /\ documents_without_bsg = <<>>
    /\ sorted_rechtsbuecher = <<>>
    /\ DeleteTabIdle
    /\ UploadIdle
    /\ UploadTabIdle
    /\ SearchIdle
    /\ CliIdle
    /\ ExtractIdle
    /\ FormatIdle
    /\ LawIdle
    /\ ListIdle
    /\ DeleteIdle

StoredNames == {"d1", "d2", "d3"}

DocsTabNext ==
    \/ \E o \in SearchOutcomes : \E ok \in BOOLEAN : DocsPageLoad(o, ok)
    \/ \E o \in SearchOutcomes : \E ok \in BOOLEAN : DocsRerun(o, ok)
    \/ \E ok \in BOOLEAN : DocsLoadForDelete(ok)
    \/ \E i \in 1..MaxListed : \E reachable \in BOOLEAN : \E r \in DeleteAnswers :
          \E ok \in BOOLEAN : DocsDeleteSelected(i, reachable, r, ok)
    \/ \E ok \in BOOLEAN : ClickLoadDocs(ok)
    \/ \E ok \in BOOLEAN : ClickOwnUploads(ok)
    \/ \E name \in StoredNames : \E ok \in BOOLEAN : \E r \in DeleteAnswers :
          ClickRowDelete(name, ok, r)
    \/ \E name \in StoredNames : \E ok \in BOOLEAN : \E r \in DeleteAnswers :
          ClickOwnRowDelete(name, ok, r)

SpecDocsTab == DocsTabInit /\ [][DocsTabNext]_vars

\* st.rerun() starts the next script run at once
SpecDocsTabFair ==
    SpecDocsTab /\ WF_vars(\E o \in SearchOutcomes : \E ok \in BOOLEAN : DocsRerun(o, ok))

\* ------------------------------------------------------------------------
\* The prompt tab together with the search tab
\* ------------------------------------------------------------------------

\* The script run of a click on a button of the prompt tab: the search tab
\* above it renders the stored answer, the button stores p and st.rerun()
\* ends the run before the sidebar.
PromptRun(click, p) ==
    /\ app_variant = "unibe"
    /\ run_status = "rendered"
    /\ use_custom_prompt' = p.use_custom_prompt
    /\ custom_system_prompt' = p.custom_system_prompt
    /\ prompt_last' = click
    /\ run_status' = "rerun"
    /\ search_run' = [click |-> Missing, example |-> Missing, query_before |-> last_query,
                      response_before |-> last_response, searches |-> 0, failed |-> FALSE,
                      messages |-> 0, shown |-> AnswerShown(last_response),
                      status |-> "rerun"]
    /\ delete_tab_run' = NoTabRun
    /\ UNCHANGED <<app_variant, secrets, has_engine, docs_for_delete, uploadTabVars,
                   last_query, last_response, example_query, gen_calls, gen_last,
                   last_search, submissions>>

ClickApply(edited) == PromptRun(PromptClick("apply", edited), ApplyPrompt(edited))

ClickRestore == PromptRun(PromptClick("restore", ""), RestorePrompt)

PromptNext ==
    \/ SearchTabNext
    \/ \E edited \in PromptInputs : ClickApply(edited) /\ UNCHANGED OutsideSearchTab
    \/ ClickRestore /\ UNCHANGED OutsideSearchTab

SpecPrompt == SearchTabInit /\ [][PromptNext]_vars

\* ------------------------------------------------------------------------
\* The CLI and the web variants applied to the same response and to the same
\* title
\* ------------------------------------------------------------------------

\* either a response or a title is given
BothInit ==
    /\ \/ /\ response \in Responses
          /\ title = <<>>
       \/ /\ response = ResponseOf(<<>>)
          /\ title \in Titles
    /\ format_calls = 0
    /\ sources_dict = NoResult
    /\ sources_again = NoResult
    /\ cli_sources = NoCliResult
    /\ bsg_result = Unset
    /\ cli_bsg_nr = Unset
    /\ CatalogIdle
    /\ LawIdle
    /\ ListIdle
    /\ DeleteIdle
    /\ WebIdle

ExtractUntouched == bsg_result = Unset /\ cli_bsg_nr = Unset
FormatUntouched == format_calls = 0 /\ ~cli_sources.called

\* the web variants format the response
WebFormat ==
    /\ ExtractUntouched
    /\ title = <<>>
    /\ FormatGroundingChunks

\* search of belex_search.py builds its sources for the response
CliFormat ==
    /\ ExtractUntouched
    /\ title = <<>>
    /\ ~cli_sources.called
    /\ cli_sources' = cli_sources_dict(response)
    /\ UNCHANGED <<response, format_calls, sources_dict, sources_again, extractVars,
                   catalogVars, lawVars, listVars, deleteVars, webVars>>

\* the web variants extract the number of the title
WebExtract ==
    /\ FormatUntouched
    /\ response = ResponseOf(<<>>)
    /\ ExtractBsgNumber

\* the display loop of belex_search.py extracts the number of the title
CliExtract ==
    /\ FormatUntouched
    /\ response = ResponseOf(<<>>)
    /\ cli_bsg_nr = Unset
    /\ cli_bsg_nr' = CliBsgNumber(title)
    /\ UNCHANGED <<title, bsg_result, formatVars, catalogVars, lawVars, listVars, deleteVars,
                   webVars>>

BothNext == WebFormat \/ CliFormat \/ WebExtract \/ CliExtract

SpecBoth == BothInit /\ [][BothNext]_vars

\* ------------------------------------------------------------------------
\* Properties
\* ------------------------------------------------------------------------

\* the positions of s at which the marker BSG is followed, after at most one
\* separator, by a digit or a dot
SegmentStart(s, i) ==
    IF i + 3 <= Len(s) /\ s[i + 3] \in DigitDot THEN i + 3
    ELSE IF i + 4 <= Len(s) /\ s[i + 3] \in SepChars /\ s[i + 4] \in DigitDot THEN i + 4
    ELSE 0

Occurrences(s) == {i \in 1..Len(s) : MarkerAt(s, i) /\ SegmentStart(s, i) > 0}

\* the last position of the longest stretch from k on whose characters all lie in cs
StretchEnd(s, k, cs) ==
    CHOOSE e \in k..Len(s) :
        /\ \A p \in k..e : s[p] \in cs
        /\ e = Len(s) \/ s[e + 1] \notin cs

\* the segment starting at k: digits and dots, then '-' and digits when present
SegmentAt(s, k) ==
    LET e == StretchEnd(s, k, DigitDot)
    IN  IF e + 2 <= Len(s) /\ s[e + 1] = "-" /\ s[e + 2] \in Digits
        THEN SubSeq(s, k, StretchEnd(s, e + 2, Digits))
        ELSE SubSeq(s, k, e)

\* C1: extract_bsg_number returns the segment of digits and dots, optionally
\* followed by '-' and digits, that follows the leftmost marker BSG having such
\* a segment after at most one whitespace or underscore, and None for a title
\* without such an occurrence.
C1_ExtractReturnsSegment ==
    bsg_result # Unset =>
        LET occ == Occurrences(title)
        IN  IF occ = {} THEN bsg_result = None
            ELSE LET first == CHOOSE i \in occ : \A j \in occ : i <= j
                 IN  bsg_result = SegmentAt(title, SegmentStart(title, first))

\* a title whose first marker has no segment and whose second marker has one
C1_Witness ==
    /\ title = <<"B", "S", "G", "x", "B", "S", "G", "4">>
    /\ bsg_result = <<"4">>

\* the chunks of the response's first candidate
ChunksOf(r) == r.cands[1].chunks

HasChunkList(r) ==
    /\ r.candidates = "list"
    /\ Len(r.cands) > 0
    /\ r.cands[1].grounding_metadata = "obj"
    /\ r.cands[1].grounding_chunks = "list"

\* the positions of the chunks of title t that carry a text, in encounter order
RECURSIVE SnippetsOf(_, _)
SnippetsOf(chunks, t) ==
    IF chunks = <<>> THEN <<>>
    ELSE LET c == chunks[Len(chunks)]
             before == SnippetsOf(SubSeq(chunks, 1, Len(chunks) - 1), t)
         IN  IF HasTitle(c) /\ c.title = t /\ Truthy(c.text)
             THEN before \o <<Strip(c.text)>>
             ELSE before

\* C2: the mapping has exactly one entry per distinct title among the chunks
\* that carry a title, the snippets of a title are the trimmed texts of its
\* chunks in encounter order with duplicates, a title without text has the empty
\* list, and a second call on the same input returns an equal mapping.
C2_OneEntryPerTitle ==
    (format_calls >= 1 /\ HasChunkList(response)) =>
        LET chunks == ChunksOf(response)
            titles == {chunks[i].title : i \in {j \in 1..Len(chunks) : HasTitle(chunks[j])}}
        IN  /\ ~sources_dict.raised
            /\ DOMAIN sources_dict.dict = titles
            /\ \A t \in titles : sources_dict.dict[t] = SnippetsOf(chunks, t)
            /\ format_calls = 2 => sources_again = sources_dict

\* two chunks of one title with the same text and a title without text
C2_Witness ==
    /\ format_calls = 2
    /\ HasChunkList(response)
    /\ DOMAIN sources_dict.dict = {<<"a">>, <<"b">>}
    /\ sources_dict.dict[<<"a">>] = <<<<"x">>, <<"x">>>>
    /\ sources_dict.dict[<<"b">>] = <<>>

\* the documents of the listing, as a set
DocSet == {documents[i] : i \in 1..Len(documents)}

\* the book groups a grouping puts doc in, and whether it puts it in the
\* ungrouped bucket
GroupsOf(g, doc) ==
    {k \in DOMAIN g.rechtsbuecher :
        \E i \in 1..Len(g.rechtsbuecher[k]) : g.rechtsbuecher[k][i][2] = doc}

Ungrouped(g, doc) ==
    \E i \in 1..Len(g.documents_without_bsg) : g.documents_without_bsg[i] = doc

Shown == [rechtsbuecher |-> rechtsbuecher, documents_without_bsg |-> documents_without_bsg]

\* k is the part of s before its first dot
BeforeFirstDot(k, s) ==
    /\ Len(k) <= Len(s)
    /\ k = SubSeq(s, 1, Len(k))
    /\ \A i \in 1..Len(k) : k[i] # "."
    /\ Len(k) = Len(s) \/ s[Len(k) + 1] = "."

C4_NumericKeysFirst ==
    \A i \in 1..Len(sorted_rechtsbuecher) : \A j \in 1..Len(sorted_rechtsbuecher) :
        i < j =>
            LET x == sorted_rechtsbuecher[i]
                y == sorted_rechtsbuecher[j]
            IN  /\ ~(~IsDigit(x) /\ IsDigit(y))
                /\ IsDigit(x) /\ IsDigit(y) => IntOf(x) <= IntOf(y)
                /\ ~IsDigit(x) /\ ~IsDigit(y) => StrLess(x, y)

\* the permutations of a listing
Reorderings(docs) ==
    {[i \in 1..Len(docs) |-> docs[p[i]]] :
        p \in {q \in [1..Len(docs) -> 1..Len(docs)] :
                  \A a \in 1..Len(docs) : \A b \in 1..Len(docs) : a # b => q[a] # q[b]}}

RECURSIVE SumLen(_, _)
SumLen(d, ks) ==
    IF ks = {} THEN 0
    ELSE LET k == CHOOSE x \in ks : TRUE IN Len(d[k]) + SumLen(d, ks \ {k})

\* C5: every document of the listing is in exactly one book group or in the
\* ungrouped bucket, the sizes of the groups and of the bucket sum to the number
\* of documents, and under every reordering of the listing each document lands
\* in the same group or bucket.
C5_GroupingIgnoresOrder ==
    catalog_loaded =>
        /\ \A doc \in DocSet :
              Cardinality(GroupsOf(Shown, doc)) + (IF Ungrouped(Shown, doc) THEN 1 ELSE 0) = 1
        /\ SumLen(rechtsbuecher, DOMAIN rechtsbuecher) + Len(documents_without_bsg)
              = Len(documents)
        /\ \A other \in Reorderings(documents) :
              LET regrouped == GroupDocuments(other)
              IN  \A doc \in DocSet :
                      /\ GroupsOf(regrouped, doc) = GroupsOf(Shown, doc)
                      /\ Ungrouped(regrouped, doc) = Ungrouped(Shown, doc)

\* a listing whose ungrouped document comes between two documents of one book
C5_Witness ==
    /\ catalog_loaded
    /\ Len(documents) = 3
    /\ Len(documents_without_bsg) = 1
    /\ documents_without_bsg[1] = documents[2]
    /\ \E k \in DOMAIN rechtsbuecher : Len(rechtsbuecher[k]) = 2

\* the value the title resolver is to return for an answer of the lookup API
NonEmpty(v) == v # Missing /\ v # <<>>

ExpectedLawName(o) ==
    IF o.kind = "response" /\ o.status = 200 /\ o.body = "law" /\ NonEmpty(o.title)
    THEN IF NonEmpty(o.abbreviation)
         THEN o.title \o <<" ", "(">> \o o.abbreviation \o <<")">>
         ELSE o.title
    ELSE None

\* C6: get_law_name never raises; on HTTP 200 it returns 'title
\* (abbreviation)' when both are non-empty, the title when only the title is,
\* and None otherwise; on a non-200 status, a timeout or network error and a
\* body that cannot be parsed it returns None.
C6_LawNameNeverRaises ==
    /\ ~law_return.raised
    /\ law_last.requested => law_return.value = ExpectedLawName(law_last.outcome)

\* a lookup answered 200 with a body that is not JSON
C6_Witness ==
    /\ law_last.requested
    /\ law_last.outcome.status = 200
    /\ law_last.outcome.body = "unparseable"
    /\ law_return.value = None

\* C7: two HTTP requests for the same registry number are at least 3600
\* seconds apart, whatever the first one's outcome, and a call that finds an
\* expired entry issues a new request.
C7_OneRequestPerHour ==
    /\ \A i \in 1..Len(law_requests) : \A j \in 1..Len(law_requests) :
          (i < j /\ law_requests[i].bsg_number = law_requests[j].bsg_number) =>
              law_requests[j].at - law_requests[i].at >= CacheTtl
    /\ law_last.age >= CacheTtl => law_last.requested
    /\ (law_last.age >= 0 /\ law_last.age < CacheTtl) => ~law_last.requested

\* a failed lookup, a call served from the cache 3599 seconds later, and a
\* new request once the hour is over
C7_Witness ==
    /\ Len(law_requests) = 2
    /\ law_calls = 3
    /\ law_requests[1].bsg_number = law_requests[2].bsg_number
    /\ law_requests[2].at - law_requests[1].at = CacheTtl
    /\ law_last.age = CacheTtl
    /\ law_cache[law_last.bsg_number].present

\* the documents of the first n answers, page after page
RECURSIVE PagesConcat(_, _)
PagesConcat(answers, n) ==
    IF n = 0 THEN <<>>
    ELSE PagesConcat(answers, n - 1)
         \o (IF answers[n].documents = Missing THEN <<>> ELSE answers[n].documents)

AllAnswers200 ==
    \A i \in 1..Len(list_answers) :
        list_answers[i].kind = "response" /\ list_answers[i].status = 200

HasNextPage(a) == a.token # Missing /\ a.token # <<>>

\* C8: when every page request answers 200, the first request carries page
\* size 20 and no page token, each later request carries the nextPageToken of
\* the previous answer, no request follows an answer without nextPageToken, and
\* the returned list is the concatenation of the pages' documents in page order.
C8_ListConcatenatesPages ==
    AllAnswers200 =>
        /\ Len(list_requests) = Len(list_answers)
        /\ \A i \in 1..Len(list_requests) :
              /\ list_requests[i].pageSize = 20
              /\ i = 1 => list_requests[i].pageToken = Missing
              /\ i > 1 => /\ HasNextPage(list_answers[i - 1])
                          /\ list_requests[i].pageToken = list_answers[i - 1].token
        /\ list_pc = "returned" =>
              /\ ~HasNextPage(list_answers[Len(list_answers)])
              /\ list_return = PagesConcat(list_answers, Len(list_answers))
        /\ (list_pc = "loop" /\ list_answers # <<>>) =>
              HasNextPage(list_answers[Len(list_answers)])

\* three pages, the first with two documents, the second without a
\* documents array, the third with one document and no token
C8_Witness ==
    /\ list_pc = "returned"
    /\ AllAnswers200
    /\ Len(list_answers) = 3
    /\ list_answers[2].documents = Missing
    /\ list_return = <<"d2", "d3", "d1">>
    /\ list_requests[3].pageToken = <<"b">>

\* C9: when a page request answers with a status other than 200, no further
\* request is issued, the status and the body are shown as errors, and the
\* documents of the pages before it are returned.
C9_ListStopsOnErrorStatus ==
    \A i \in 1..Len(list_answers) :
        (list_answers[i].kind = "response" /\ list_answers[i].status # 200) =>
            /\ i = Len(list_answers)
            /\ Len(list_requests) = i
            /\ list_pc = "returned"
            /\ \E e \in 1..Len(list_errors) : list_errors[e].status = list_answers[i].status
            /\ \E e \in 1..Len(list_errors) : list_errors[e].text = list_answers[i].text
            /\ list_return = PagesConcat(list_answers, i - 1)

\* two pages of documents, then a 403
C9_Witness ==
    /\ list_pc = "returned"
    /\ Len(list_answers) = 3
    /\ list_answers[3].status = 403
    /\ list_return = <<"d1", "d2", "d3">>

\* C10: in both variants delete_document sends one DELETE with force=true
\* for the given resource name and returns True exactly when the status is 200
\* or 204; for every other status it returns False and shows status and body.
C10_DeleteSucceedsOn200Or204 ==
    (del_last.variant # "none" /\ del_last.answer.kind = "response") =>
        /\ del_requests[Len(del_requests)] =
              [method |-> "DELETE", document_name |-> del_last.document_name, force |-> "true"]
        /\ del_return = (del_last.answer.status \in {200, 204})
        /\ ~del_return =>
              /\ \E e \in 1..Len(del_errors) : del_errors[e].status = del_last.answer.status
              /\ \E e \in 1..Len(del_errors) : del_errors[e].text = del_last.answer.text

\* C11: when the delete request of the delete tab is answered with a failure
\* status (403, 404, 500), delete_document returns False and shows the error,
\* the session's docs_for_delete is what it was before the click, no success
\* message is shown and the delete action calls no st.rerun().
C11_FailedDeleteKeepsList ==
    (/\ delete_tab_run.action = "delete"
     /\ del_last.answer.kind = "response"
     /\ del_last.answer.status \notin {200, 204}) =>
        /\ del_return = FALSE
        /\ del_errors # <<>>
        /\ docs_for_delete = delete_tab_run.docs_before
        /\ docs_for_delete.present
        /\ ~delete_tab_run.success
        /\ ~delete_tab_run.rerun
        /\ run_status = "rendered"

C11_Witness ==
    /\ delete_tab_run.action = "delete"
    /\ del_last.answer.kind = "response"
    /\ del_last.answer.status = 403
    /\ app_variant = "unibe"
    /\ Len(docs_for_delete.docs) = 2
    /\ del_return = FALSE

\* C12: a submitted file of more than 100*1024*1024 bytes is rejected in the
\* upload tab and upload_file_to_filestore is never called for it (so no
\* temporary file is written and no ingestion call made); a submitted file of
\* at most that size gets the upload button.
C12_LargeFileNeverUploaded ==
    /\ up_calls > 0 => up_last.file.size <= 100 * 1024 * 1024
    /\ (run_status = "rendered" /\ uploaded_file.size > 100 * 1024 * 1024) =>
          /\ upload_tab_run.rejected
          /\ ~upload_tab_run.offered
          /\ ~upload_tab_run.called
    /\ (run_status = "rendered" /\ uploaded_file.size \in 0..(100 * 1024 * 1024)) =>
          upload_tab_run.offered /\ ~upload_tab_run.rejected
    /\ tmp_created <= up_calls
    /\ Len(ingest_calls) <= up_calls

C12_Witness ==
    /\ uploaded_file.size = 150 * 1024 * 1024
    /\ upload_tab_run.rejected
    /\ up_calls > 0
    /\ up_last.file.size = 100 * 1024 * 1024

\* C13: when upload_file_to_filestore has returned, every temporary file it
\* created has been removed: after a successful ingestion, after an ingestion
\* that raised, and after a failed write of the submitted bytes.
C13_TemporaryFileRemoved ==
    up_calls > 0 => tmp_files = {}

\* C14: in both variants an upload whose temporary file was written calls the
\* ingestion endpoint exactly once, with the path of the temporary file, the
\* configured store, the override as display name when it is not empty and
\* the file's name otherwise, and the metadata uploaded_via=webapp and an
\* upload timestamp.
C14_UploadCallsIngestionOnce ==
    (up_calls > 0 /\ up_last.env.write = "ok") =>
        /\ up_last.created
        /\ up_last.calls = 1
        /\ ingest_calls # <<>>
        /\ LET call == ingest_calls[Len(ingest_calls)]
           IN  /\ call.file_path = tmp_created
               /\ call.file_search_store_name = ConfiguredStore
               /\ call.display_name = IF up_last.display_name # "" THEN up_last.display_name
                                      ELSE up_last.file.name
               /\ call.uploaded_via = "webapp"
               /\ call.upload_timestamp = up_calls

\* C15: a search whose remote call raises does not raise past the caller:
\* the search function returns None, after a click on the search button the
\* session's last_response is None, no answer section is shown in that run,
\* and the run goes on to its end (the document tabs and the sidebar).
C15_FailedSearchShowsNoAnswer ==
    /\ last_search.raised => last_search.result = NoResponse
    /\ (search_run.click # Missing /\ search_run.failed) =>
          /\ last_response = NoResponse
          /\ ~search_run.shown
          /\ search_run.status = "rendered"
          /\ run_status = "rendered"

C15_Witness ==
    /\ search_run.click = <<"a">>
    /\ search_run.failed
    /\ search_run.response_before # NoResponse
    /\ last_response = NoResponse
    /\ app_variant = "unibe"
    /\ search_run.messages = 1

\* C18: a turn of the interactive loop ends the loop exactly when the trimmed
\* line is quit, exit or q in any letter case, on EOF, or on an interrupt; an
\* empty or blank line starts no search and the loop goes on; every other
\* line starts exactly one search and the loop goes on after it, also when
\* the search failed. With arguments, one search is run on the arguments
\* joined by single spaces and no line is read.
C18_LoopEndsOnQuitEofInterrupt ==
    /\ cli_last.event # "none" =>
          /\ cli_last.ended <=>
                \/ cli_last.event \in {"eof", "interrupt"}
                \/ cli_last.line \in { <<"q">>, <<" ", "Q", " ">>, <<"q", "u", "i", "t">>,
                                       <<"E", "x", "i", "t">> }
                \/ cli_last.outcome = "interrupt"
          /\ cli_last.ended <=> cli_pc = "exited"
          /\ (cli_last.event = "line" /\ cli_last.line \in {<<>>, <<" ">>}) =>
                cli_last.searches = 0 /\ ~cli_last.ended
          /\ (cli_last.event = "line"
              /\ cli_last.line \in {<<"x">>, <<"q", "u", "i", "t", "s">>}) =>
                /\ cli_last.searches = 1
                /\ gen_last.contents = cli_last.line
                /\ cli_last.outcome = "raises" => ~cli_last.ended
          /\ cli_last.event # "line" => cli_last.searches = 0
    /\ (cli_engine /\ cli_argv # <<>>) =>
          /\ cli_pc = "exited"
          /\ cli_reads = 0
          /\ gen_calls = 1
          /\ gen_last.contents = (IF Len(cli_argv) = 1 THEN <<"a">> ELSE <<"a", " ", "b">>)
    /\ gen_calls <= cli_reads + 1
    /\ cli_reads > 0 => gen_calls <= cli_reads

C18_Witness ==
    /\ cli_reads = 3
    /\ gen_calls = 1
    /\ last_search.raised
    /\ cli_last.line = <<"E", "x", "i", "t">>
    /\ cli_last.ended

\* C19: no search is repeated by the program: the generate_content calls
\* issued so far, plus the example still waiting to be searched, never exceed
\* the queries the user has submitted (non-blank clicks on the search button,
\* clicks on an example, command-line queries), whether the calls failed or
\* not, and no script run and no turn of the loop issues more than one call.
C19_OneCallPerSubmission ==
    /\ gen_calls + (IF example_query # Missing THEN 1 ELSE 0) <= submissions
    /\ search_run.searches <= 1
    /\ cli_last.searches <= 1

C19_Witness ==
    /\ app_variant = "app"
    /\ submissions = 3
    /\ gen_calls = 3
    /\ last_search.raised
    /\ last_search.query = <<"e", "1">>
    /\ run_status = "rendered"

\* C20: last_query and last_response are the query and the returned value
\* of the search executed last (None when that search failed), so each search
\* replaces the previous answer; a click on the search button with an empty
\* or blank query runs no search and leaves both as they were.
C20_LastAnswerIsLastSearch ==
    /\ last_query = last_search.query
    /\ last_response = last_search.result
    /\ last_search.raised => last_response = NoResponse
    /\ (search_run.click \in {<<>>, <<" ">>}) =>
          /\ search_run.searches = 0
          /\ last_query = search_run.query_before
          /\ last_response = search_run.response_before

C20_Witness ==
    /\ search_run.click = <<" ">>
    /\ last_query = <<"e", "2">>
    /\ last_response \in SearchResponses
    /\ gen_calls = 2

\* C16: an exception of the HTTP client or of the vendor's library during
\* listing, upload or delete is caught inside the function and shown as a
\* message, and the function returns its failure value: list_documents the
\* empty list (also when pages had been accumulated), upload None, delete
\* False.
C16_ExceptionsYieldFailureResult ==
    /\ (list_answers # <<>> /\ list_answers[Len(list_answers)].kind = "exception") =>
          /\ list_pc = "returned"
          /\ list_return = <<>>
          /\ list_errors # <<>>
          /\ list_errors[Len(list_errors)].message = "Fehler beim Auflisten der Dokumente"
    /\ (up_calls > 0 /\ up_last.env.ingest = "raises") =>
          /\ up_return = None
          /\ up_errors = 1
    /\ (del_last.variant # "none" /\ del_last.answer.kind = "exception") =>
          /\ del_return = FALSE
          /\ Len(del_errors) = 1

C16_Witness ==
    /\ Len(list_answers) = 2
    /\ list_answers[2].kind = "exception"
    /\ list_docs = <<"d2", "d3">>
    /\ list_return = <<>>

\* C17: under a missing or empty API key or store identifier nothing is
\* served: a web session never stores the search engine, each of its script
\* runs stops in load_config, and no search, list, upload or delete is
\* issued; the command line exits with status 1 without constructing the
\* search engine and without a search.
C17_NoRequestWithoutConfiguration ==
    /\ (/\ app_variant \in {"app", "unibe"}
        /\ \/ secrets.api_key \in {Missing, <<>>}
           \/ secrets.filestore_id \in {Missing, <<>>}) =>
          /\ ~has_engine
          /\ run_status \in {"none", "halted"}
          /\ gen_calls = 0
          /\ ~docs_for_delete.present
          /\ list_requests = <<>>
          /\ del_requests = <<>>
          /\ up_calls = 0
          /\ ingest_calls = <<>>
    /\ (/\ app_variant = "cli"
        /\ \/ ~cli_config.exists
           \/ cli_config.api_key \in {Missing, <<>>}
           \/ cli_config.filestore_id \in {Missing, <<>>}) =>
          /\ ~cli_engine
          /\ gen_calls = 0
          /\ cli_reads = 0
          /\ cli_pc \in {"start", "exited"}
          /\ cli_pc = "exited" => cli_exit = 1

C17_Witness ==
    /\ app_variant = "unibe"
    /\ secrets.api_key = <<"k">>
    /\ secrets.filestore_id = <<>>
    /\ run_status = "halted"
    /\ ~has_engine

\* the cases in which the response carries no grounding data: no candidates
\* attribute or an empty candidate list, a first candidate without grounding
\* metadata, a chunk list that is missing, holds None or is empty
NoGroundingData(r) ==
    \/ r.candidates = "missing"
    \/ r.candidates = "list" /\ Len(r.cands) = 0
    \/ r.candidates = "list" /\ Len(r.cands) > 0 /\
          \/ r.cands[1].grounding_metadata # "obj"
          \/ r.cands[1].grounding_chunks \in {"missing", "None"}
          \/ r.cands[1].grounding_chunks = "list" /\ Len(r.cands[1].chunks) = 0

\* C21: the formatter returns the empty mapping, without raising, whenever the
\* response has no candidates or an empty candidate list, the first candidate
\* has no grounding metadata, or the chunk list is missing, holds no value or
\* is empty; a chunk without retrieved context or without a title is skipped
\* and the titled chunks around it are still collected.
C21_NoGroundingDataGivesEmptyMapping ==
    format_calls >= 1 =>
        /\ NoGroundingData(response) =>
              sources_dict = [raised |-> FALSE, dict |-> EmptyDict]
        /\ HasChunkList(response) =>
              /\ ~sources_dict.raised
              /\ \A i \in 1..Len(ChunksOf(response)) :
                    HasTitle(ChunksOf(response)[i]) =>
                        ChunksOf(response)[i].title \in DOMAIN sources_dict.dict

\* the listed documents whose display name carries the registry number bsg_nr
WithRegistryNumber(docs, bsg_nr) ==
    {docs[i] : i \in {j \in 1..Len(docs) : extract_bsg_number(DisplayNameOf(docs[j])) = bsg_nr}}

RegistryNumbersOf(docs) ==
    {extract_bsg_number(DisplayNameOf(docs[i])) : i \in 1..Len(docs)} \ {None}

GroupMembers(group) == {group[i] : i \in 1..Len(group)}

\* C22: every registry number that corresponds to two or more listed documents
\* is reported as one duplicate group holding those documents, and 'no
\* duplicates' is reported only when no registry number corresponds to more
\* than one listed document.
C22_DuplicatesByRegistryNumber ==
    dup_report.shown # "nothing" =>
        \A bsg_nr \in RegistryNumbersOf(documents) :
            LET same == WithRegistryNumber(documents, bsg_nr)
            IN  Cardinality(same) >= 2 =>
                    /\ dup_report.shown = "duplicates"
                    /\ \E n \in DOMAIN dup_report.duplicates :
                          same \subseteq GroupMembers(dup_report.duplicates[n])

\* the position of the first '-' of s, or Len(s) + 1 when it has none
RECURSIVE DashAt(_, _)
DashAt(s, i) ==
    IF i > Len(s) THEN Len(s) + 1
    ELSE IF s[i] = "-" THEN i
    ELSE DashAt(s, i + 1)

\* digit groups separated by single dots: not empty, digits and dots only, a
\* digit first and last, no two dots in a row
DottedNumber(s) ==
    /\ s # <<>>
    /\ \A i \in 1..Len(s) : s[i] \in DigitDot
    /\ s[1] \in Digits
    /\ s[Len(s)] \in Digits
    /\ \A i \in 1..(Len(s) - 1) : ~(s[i] = "." /\ s[i + 1] = ".")

WellFormedNumber(s) ==
    LET d == DashAt(s, 1)
    IN  /\ DottedNumber(SubSeq(s, 1, d - 1))
        /\ d <= Len(s) =>
              /\ d < Len(s)
              /\ \A i \in (d + 1)..Len(s) : s[i] \in Digits

\* C23: every value the extraction returns is one or more non-empty digit
\* groups separated by single dots, optionally followed by one dash and digits;
\* it never starts or ends with a dot, never has two adjacent dots and never
\* consists of dots only.
C23_ExtractedNumberWellFormed ==
    (bsg_result # Unset /\ bsg_result # None) => WellFormedNumber(bsg_result)

\* the events of the last run of the documents tab
EventKinds(run) == {run.events[i].kind : i \in 1..Len(run.events)}

\* what the run of a click on a row of 'Eigene Uploads' did after the delete
\* request, and what the run started by its st.rerun() did
OwnDeleteThenWaitThenRefetch ==
    /\ (docs_run.click.kind = "del_own" /\ docs_run.deleted # "none") =>
          LET e == docs_run.events
              k == CHOOSE i \in 1..Len(e) : e[i].kind = "delete"
          IN  IF docs_run.delete_ok
              THEN /\ Len(e) = k + 2
                   /\ e[k + 1] = DocsEvent("sleep", e[k].at + 5)
                   /\ e[k + 2].kind = "rerun"
                   /\ e[k + 2].at >= e[k + 1].at
                   /\ run_status = "rerun"
              ELSE /\ Len(e) = k
                   /\ clock = e[k].at
                   /\ run_status # "rerun"
    /\ docs_run.after_delete >= 0 =>
          /\ docs_run.click = NoDocsClick
          /\ "list" \in EventKinds(docs_run)
          /\ \A i \in 1..Len(docs_run.events) :
                docs_run.events[i].kind = "list" =>
                    docs_run.events[i].at >= docs_run.after_delete + 5

\* C24: in 'Eigene Uploads' a successful delete is followed, in this order,
\* by a wait of 5 seconds and by a rerun in which the document list is
\* requested from the store again; a failed delete causes neither wait nor
\* rerun; the refreshed view issues no list request before the wait is over.
C24_DeleteWaitsThenRefetches ==
    /\ []OwnDeleteThenWaitThenRefetch
    /\ (OwnDeleteAt >= 0) ~> (docs_run.after_delete >= 0)

\* the rerun after the delete of d1 has listed the store, 5 seconds later
C24_Witness ==
    /\ docs_run.after_delete = 0
    /\ docs_run.events = <<DocsEvent("list", 5)>>
    /\ "d1" \in deleted_names
    /\ docs_run.own_rows = <<"d2">>

\* the flag says whether a custom prompt is stored, and the stored prompt is
\* the text of the last 'Anwenden' unless 'Standard wiederherstellen' came
\* later
PromptStateConsistent ==
    app_variant = "unibe" =>
        /\ use_custom_prompt <=> custom_system_prompt # DEFAULT_SYSTEM_PROMPT
        /\ prompt_last.action = "apply" => custom_system_prompt = prompt_last.edited
        /\ prompt_last.action \in {"none", "restore"} =>
              custom_system_prompt = DEFAULT_SYSTEM_PROMPT

\* a step in which app_unibe.py issues a search sends the stored prompt
SearchSendsStoredPrompt ==
    (app_variant = "unibe" /\ gen_calls' > gen_calls) =>
        gen_last'.system_instruction = custom_system_prompt

\* C25: after any sequence of 'Anwenden' and 'Standard wiederherstellen',
\* use_custom_prompt is true exactly when custom_system_prompt differs from
\* DEFAULT_SYSTEM_PROMPT, and the system instruction sent with every search is
\* the stored custom_system_prompt: the text of the most recent apply, or the
\* default when a restore came later.
C25_PromptFlagMatchesStoredPrompt ==
    /\ []PromptStateConsistent
    /\ [][SearchSendsStoredPrompt]_vars

\* the second search of the session, sent with the text applied before it
C25_Witness ==
    /\ app_variant = "unibe"
    /\ prompt_last = PromptClick("apply", "custom")
    /\ use_custom_prompt
    /\ gen_calls = 2
    /\ gen_last.system_instruction = "custom"

\* C26: docs_for_delete, when present, holds no document that a delete of the
\* session (the delete tab or the delete button of a row) reported as deleted.
C26_CachedListHoldsNoDeletedDocument ==
    docs_for_delete.present =>
        \A i \in 1..Len(docs_for_delete.docs) :
            docs_for_delete.docs[i].name \notin deleted_names

\* C27: a click on the delete button of a row of the listing shown by
\* 'Dokumente laden' leads, in the script run started by the click, to a
\* delete_document call for the document of that row.
C27_RowDeleteClickCallsDelete ==
    docs_run.click.kind = "del" =>
        /\ docs_run.deleted = docs_run.click.name
        /\ "delete" \in EventKinds(docs_run)

\* the documents of docs whose selection label is that of doc
SameLabel(docs, doc, reachable) ==
    {i \in 1..Len(docs) : DocLabel(docs[i], reachable) = DocLabel(doc, reachable)}

\* C28: distinct documents of docs_for_delete get distinct selection options:
\* there are as many options as loaded documents, each option carries the
\* resource name of its own document, and the name sent with a delete belongs
\* to a document whose label no other loaded document shares, also when two
\* documents have the same display label and size.
C28_OneOptionPerDocument ==
    /\ docs_for_delete.present =>
          \A reachable \in BOOLEAN :
              LET doc_options == DocOptions(docs_for_delete.docs, reachable)
              IN  /\ Len(doc_options) = Len(docs_for_delete.docs)
                  /\ \A i \in 1..Len(doc_options) :
                        doc_options[i].name = docs_for_delete.docs[i].name
    /\ delete_tab_run.action = "delete" =>
          LET docs == delete_tab_run.docs_before.docs
          IN  \A i \in 1..Len(docs) : \A reachable \in BOOLEAN :
                  docs[i].name = del_last.document_name =>
                      SameLabel(docs, docs[i], reachable) = {i}

\* an answer that ends the loop: an exception, a status other than 200, or a
\* 200 whose nextPageToken is absent or empty
FinalAnswer(a) ==
    \/ a.kind = "exception"
    \/ a.kind = "response" /\ a.status # 200
    \/ a.kind = "response" /\ a.status = 200 /\ ~HasNextPage(a)

\* C29: list_documents issues exactly one request per page and returns with
\* the first answer that is an exception, a status other than 200 or a 200
\* without (or with an empty) nextPageToken, so that such an answer ends it
\* after finitely many requests; it has no other exit and goes on requesting
\* while every answer is a 200 with a non-empty nextPageToken.
C29_ListEndsExactlyOnFinalAnswer ==
    /\ Len(list_requests) = Len(list_answers)
    /\ \A i \in 1..Len(list_answers) :
          FinalAnswer(list_answers[i]) => (i = Len(list_answers) /\ list_pc = "returned")
    /\ list_pc = "returned" =>
          (list_answers # <<>> /\ FinalAnswer(list_answers[Len(list_answers)]))
    /\ list_pc = "loop" =>
          \A i \in 1..Len(list_answers) :
              /\ HasNextPage(list_answers[i])
              /\ list_requests[i] = ListParams(IF i = 1 THEN None ELSE list_answers[i - 1].token)

\* the third request is answered by an exception after two pages with a token
C29_Witness ==
    /\ list_pc = "returned"
    /\ Len(list_requests) = 3
    /\ HasNextPage(list_answers[1])
    /\ HasNextPage(list_answers[2])
    /\ list_answers[3].kind = "exception"

\* C30: for every response the mapping from titles to snippets that search of
\* belex_search.py builds inline equals the mapping format_grounding_chunks
\* returns in the web variants (no mapping where the other is empty, an
\* exception where the other raises), and for every title the registry number
\* the CLI extracts equals the value of extract_bsg_number.
C30_CliAndWebAgree ==
    /\ (format_calls >= 1 /\ cli_sources.called) =>
          /\ cli_sources.dict = sources_dict.dict
          /\ cli_sources.raised = sources_dict.raised
          /\ cli_sources.built <=>
                (HasChunkList(response) /\ ChunksOf(response) # <<>>)
    /\ (bsg_result # Unset /\ cli_bsg_nr # Unset) => cli_bsg_nr = bsg_result

\* both have formatted a response with a title that has text twice and a
\* title without text
C30_Witness ==
    /\ format_calls = 1
    /\ cli_sources.built
    /\ DOMAIN cli_sources.dict = {<<"a">>, <<"b">>}
    /\ cli_sources.dict[<<"a">>] = <<<<"x">>, <<"y">>>>
    /\ sources_dict.dict[<<"b">>] = <<>>

====
